---- MODULE Spec2Model ----
(***************************************************************************)
(* Module registration and provider resolution of the inest DI container:  *)
(* ModuleRegistry (packages/core/modules/module-registry.ts),               *)
(* ProviderCollector (packages/core/providers/provider-collector.ts),       *)
(* ControllerRegistry, RouterExplorer.explore and NestApplication.init.     *)
(*                                                                         *)
(* The host is a single-threaded event loop: an async function runs        *)
(* synchronously up to its next await, so every action below is one such   *)
(* synchronous run of a registration call chain, one settlement callback   *)
(* of a promise, or one call made from outside.                            *)
(***************************************************************************)
EXTENDS Integers, Sequences, FiniteSets, TLC

(***************************************************************************)
(* Bounds of the explored configurations.                                   *)
(***************************************************************************)
MaxProviders == 2      \* longest providers list drawn for the leaf module
MaxCalls == 2          \* direct registerModule calls made by an outside caller
MaxInflight == 1       \* async factory promises pending at once by outside calls
MaxDepth == 6          \* nesting of resolveProvider/collectProviders calls explored

(***************************************************************************)
(* Tokens, classes and modules.  A token is a string or a class; every     *)
(* class passes isModule, whether or not it carries @Module metadata.       *)
(***************************************************************************)
StrTokens == {"T", "U", "X", "META"}
Classes == {"SvcA", "Bad", "Ctl", "BadCtl", "CtlU", "Pair", "String", "FCtlA", "FCtlB",
            "CycA", "CycB"}
Modules == {"Root", "A", "B", "Leaf", "Dyn"}

\* shared.utils isModule: any function that is a class
isModule(value) == value \in Classes \cup Modules

(***************************************************************************)
(* Values held by the Instance Cache and passed to constructors.            *)
(***************************************************************************)
Str(s) == [k |-> "str", v |-> s, a |-> <<>>, n |-> 0]
Null == [k |-> "null", v |-> "", a |-> <<>>, n |-> 0]
Undefined == [k |-> "undefined", v |-> "", a |-> <<>>, n |-> 0]
\* the object built by `new cls(...args)`; n tells two objects of one class apart
Instance(cls, args, n) == [k |-> "instance", v |-> cls, a |-> args, n |-> n]
\* the object returned by a factory function called with args
Made(fn, args, n) == [k |-> "made", v |-> fn, a |-> args, n |-> n]

(***************************************************************************)
(* Provider declarations (provider-collector.ts, interface Provider).       *)
(* kind "class" is the class shorthand; the other kinds are objects with a  *)
(* `provide` key and the named use* key.                                    *)
(***************************************************************************)
Decl(kind, provide, useClass, useValue, inject, useExisting, async, rejects) ==
    [kind |-> kind, provide |-> provide, useClass |-> useClass,
     useValue |-> useValue, inject |-> inject, useExisting |-> useExisting,
     async |-> async, rejects |-> rejects]

ClassProvider(c) == Decl("class", c, c, Undefined, <<>>, "", FALSE, FALSE)
UseClass(t, c) == Decl("useClass", t, c, Undefined, <<>>, "", FALSE, FALSE)
UseValue(t, v) == Decl("useValue", t, "", Str(v), <<>>, "", FALSE, FALSE)
UseFactory(t, inj) == Decl("useFactory", t, "", Undefined, inj, "", FALSE, FALSE)
UseFactoryAsync(t, inj, rej) == Decl("useFactory", t, "", Undefined, inj, "", TRUE, rej)
UseExisting(t, u) == Decl("useExisting", t, "", Undefined, <<>>, u, FALSE, FALSE)

\* typeof provider === "object"
isObject(p) == p.kind \notin {"class", "token"}

(***************************************************************************)
(* Reflected constructor metadata of the classes.                           *)
(***************************************************************************)
\* design:paramtypes
paramtypes(c) ==
    CASE c = "SvcA" -> <<"String">>
      [] c = "Ctl" -> <<"SvcA">>
      [] c = "CtlU" -> <<"String">>
      [] c = "Pair" -> <<"SvcA", "Bad">>
      [] c = "CycA" -> <<"CycB">>
      [] c = "CycB" -> <<"CycA">>
      [] OTHER -> <<>>

\* self:paramtypes, written by @Inject(token) on a constructor parameter
selfDeclaredDeps(c) ==
    CASE c = "SvcA" -> <<[index |-> 0, param |-> "T"]>>
      [] c = "CtlU" -> <<[index |-> 0, param |-> "U"]>>
      [] c = "Pair" -> <<[index |-> 1, param |-> "X"]>>
      [] OTHER -> <<>>

\* classes whose constructor throws
ThrowingClasses == {"Bad", "BadCtl"}

(***************************************************************************)
(* The synchronous core.  The operators below take the whole program state *)
(* as a record s and return the state the call leaves behind:               *)
(*   ModuleProviders, GlobalProviders, providerDefinitions  ModuleRegistry  *)
(*   providers                                  ProviderCollector's cache   *)
(*   meta                                       the @Module metadata        *)
(*   inflight                  promises of async factories not yet settled  *)
(*   calls, invocations, errors     what the calls did    *)
(*   overflow                  the call stack was exhausted (RangeError)    *)
(*   typeError                 a method was called on the missing collector *)
(*   revision                  which of the two ModuleRegistry classes of   *)
(*                             module-registry.ts is the one loaded         *)
(***************************************************************************)
Put(f, key, val) == [x \in DOMAIN f \cup {key} |-> IF x = key THEN val ELSE f[x]]

RECURSIVE collectProviders(_, _, _)
RECURSIVE resolveProvider(_, _, _)
RECURSIVE ResolveAll(_, _, _)
RECURSIVE ResolveRest(_, _, _)

\* a variant that looks at the reflected parameter types only
DependencyToken_Reflected(c, i) == paramtypes(c)[i]

\* the token getProviderDependencies resolves for parameter i (1-based here)
DependencyToken(c, i) ==
    LET matched == SelectSeq(selfDeclaredDeps(c), LAMBDA dep : dep.index = i - 1)
    IN IF matched # <<>> THEN matched[1].param ELSE paramtypes(c)[i]

DependencyTokens(c) == [i \in 1..Len(paramtypes(c)) |-> DependencyToken(c, i)]

\* tokens.map(token => this.resolveProvider(token)), left to right
ResolveAll(s, tokens, fuel) ==
    IF tokens = <<>> \/ s.overflow
    THEN [s |-> s, vals |-> <<>>]
    ELSE ResolveRest(resolveProvider(s, Head(tokens), fuel), Tail(tokens), fuel)

\* the value of the first token, followed by the values of the remaining ones
Prepend(v, rest) == [s |-> rest.s, vals |-> <<v>> \o rest.vals]

ResolveRest(first, tokens, fuel) == Prepend(first.v, ResolveAll(first.s, tokens, fuel))

getProviderDependencies(s, provider, fuel) ==
    IF provider \notin Classes
    THEN [s |-> s, vals |-> <<>>]
    ELSE ResolveAll(s, DependencyTokens(provider), fuel)

\* how often the constructor or factory of a declaration has been called
CallsOf(calls, provider) == IF provider \in DOMAIN calls THEN calls[provider] ELSE 0

\* a constructor or factory call: counted, numbered and logged with its arguments
Invoked(s, provider, args) ==
    [s EXCEPT !.calls = Put(@, provider, CallsOf(@, provider) + 1),
              !.nextId = @ + 1,
              !.invocations = @ \cup {[provider |-> provider, args |-> args]}]

\* a variant whose catch block logs the error and caches nothing
Construct_Uncached(d, provider, cls) ==
    LET token == provider.provide
        called == Invoked(d.s, provider, d.vals)
    IN IF d.s.overflow THEN d.s
       ELSE IF cls \in ThrowingClasses
       THEN [called EXCEPT !.errors = @ \cup {[site |-> "instantiate", token |-> token]}]
       ELSE [called EXCEPT !.providers = Put(@, token, Instance(cls, d.vals, called.nextId))]

\* `new cls(...deps)` inside try/catch, d being the resolved dependencies
Construct(d, provider, cls) ==
    LET token == provider.provide
        called == Invoked(d.s, provider, d.vals)
    IN IF d.s.overflow THEN d.s
       ELSE IF cls \in ThrowingClasses
       THEN [called EXCEPT !.providers = Put(@, token, Null),
                           !.errors = @ \cup {[site |-> "instantiate", token |-> token]}]
       ELSE [called EXCEPT !.providers = Put(@, token, Instance(cls, d.vals, called.nextId))]

\* getProviderDependencies, then the construction
Instantiate(s, provider, cls, fuel) ==
    Construct(getProviderDependencies(s, cls, fuel), provider, cls)

\* useFactory(...parsedTokenValues): the result is cached now, or on settlement
CallFactory(d, p) ==
    LET called == Invoked(d.s, p, d.vals)
        result == Made(p.provide, d.vals, called.nextId)
    IN IF d.s.overflow THEN d.s
       ELSE IF p.async
       THEN [called EXCEPT !.inflight = @ \cup {[token |-> p.provide, value |-> result,
                                                 rejects |-> p.rejects]}]
       ELSE [called EXCEPT !.providers = Put(@, p.provide, result)]

\* the useExisting branch, existingProvider being the resolution of the other token
SetExisting(existingProvider, token) ==
    IF existingProvider.s.overflow THEN existingProvider.s
    ELSE [existingProvider.s EXCEPT !.providers = Put(@, token, existingProvider.v)]

\* the useFactory branch: resolve inject, then call the factory
RunFactory(s, p, fuel) == CallFactory(ResolveAll(s, p.inject, fuel), p)

collectProviders(s, provider, fuel) ==
    LET providerToken == provider.provide
        token == providerToken
    IN IF s.overflow THEN s
       ELSE IF fuel = 0 THEN [s EXCEPT !.overflow = TRUE]
       ELSE IF /\ providerToken \in DOMAIN s.providers
               /\ \/ ~isObject(provider)
                  \/ provider.kind # "useValue"
                  \/ s.providers[providerToken] # Undefined
       THEN s
       ELSE CASE provider.kind \in {"class", "useClass"} ->
                   Instantiate(s, provider,
                               IF provider.kind = "class" THEN provider.provide
                               ELSE provider.useClass,
                               fuel - 1)
              [] provider.kind = "useValue" ->
                   [s EXCEPT !.providers = Put(@, token, provider.useValue)]
              [] provider.kind = "useFactory" ->
                   RunFactory(s, provider, fuel - 1)
              [] provider.kind = "useExisting" ->
                   SetExisting(resolveProvider(s, provider.useExisting, fuel - 1), token)
              [] provider.kind = "none" ->
                   [s EXCEPT !.providers = Put(@, token, Str(token))]
              [] OTHER -> s

\* a variant that caches what it falls back to
Resolved_Cached(collected, token) ==
    IF collected.overflow THEN [s |-> collected, v |-> Undefined]
    ELSE IF token \in DOMAIN collected.providers
    THEN [s |-> collected, v |-> collected.providers[token]]
    ELSE [s |-> [collected EXCEPT
                    !.providers = Put(@, token, IF token \in StrTokens THEN Str(token)
                                                ELSE Undefined)],
          v |-> IF token \in StrTokens THEN Str(token) ELSE Undefined]

\* resolveProvider after its lookup of the definition: second cache check, then fallbacks
Resolved(collected, token) ==
    IF collected.overflow THEN [s |-> collected, v |-> Undefined]
    ELSE IF token \in DOMAIN collected.providers
    THEN [s |-> collected, v |-> collected.providers[token]]
    ELSE IF token \in StrTokens
    THEN [s |-> collected, v |-> Str(token)]
    ELSE [s |-> [collected EXCEPT
                    !.errors = @ \cup {[site |-> "resolveProvider", token |-> token]}],
          v |-> Undefined]

resolveProvider(s, token, fuel) ==
    IF s.overflow THEN [s |-> s, v |-> Undefined]
    ELSE IF fuel = 0 THEN [s |-> [s EXCEPT !.overflow = TRUE], v |-> Undefined]
    ELSE IF token \in DOMAIN s.providers
    THEN [s |-> s, v |-> s.providers[token]]
    ELSE Resolved(IF token \in DOMAIN s.providerDefinitions
                  THEN collectProviders(s, s.providerDefinitions[token], fuel - 1)
                  ELSE s,
                  token)

(***************************************************************************)
(* ModuleRegistry.                                                          *)
(***************************************************************************)
\* what an imports entry or the argument of registerModule can be:
\* a class, a dynamic module spec object, or a promise of one
ClassEntity(name) ==
    [k |-> "class", name |-> name,
     cfg |-> [module |-> "", imports |-> <<>>, providers |-> <<>>,
              controllers |-> <<>>, exports |-> <<>>]]
SpecEntity(cfg) == [k |-> "spec", name |-> "", cfg |-> cfg]
PromiseEntity(id) == [ClassEntity(id) EXCEPT !.k = "promise"]

DynamicModule(module, providers, exports) ==
    [module |-> module, imports |-> <<>>, providers |-> providers,
     controllers |-> <<>>, exports |-> exports]

isDynamicModule(entity) == entity.k \in {"spec", "promise"}

NoMetadata ==
    [imports |-> <<>>, providers |-> <<>>, controllers |-> <<>>, exports |-> <<>>,
     global |-> FALSE]

AddToModules(mp, modules, token) ==
    [m \in DOMAIN mp |->
        IF \E i \in 1..Len(modules) : modules[i] = m THEN mp[m] \cup {token} ELSE mp[m]]

\* this.providerCollector.collectProviders(provider) on the registry's collector field
CollectorCollects(s, provider) ==
    IF ~s.providerCollector THEN [s EXCEPT !.typeError = TRUE]
    ELSE collectProviders(s, provider, MaxDepth)

registerProviderInModules(s, provider, isGlobalProvider, modulesToRegisterIn) ==
    LET providerToken == provider.provide
        recorded ==
            [s EXCEPT
               !.ModuleProviders = AddToModules(@, modulesToRegisterIn, providerToken),
               !.GlobalProviders =
                   IF isGlobalProvider /\ modulesToRegisterIn # <<>>
                   THEN @ \cup {providerToken} ELSE @,
               !.providerDefinitions =
                   IF providerToken \in DOMAIN @ THEN @ ELSE Put(@, providerToken, provider)]
    IN CollectorCollects(recorded, provider)

addProviderTokenToModules(s, providerToken, isGlobalProvider, modulesToAddTo) ==
    [s EXCEPT
       !.ModuleProviders = AddToModules(@, modulesToAddTo, providerToken),
       !.GlobalProviders =
           IF isGlobalProvider /\ modulesToAddTo # <<>>
           THEN @ \cup {providerToken} ELSE @]

RECURSIVE RegisterAll_NotGlobal(_, _, _, _)
\* a variant of the providers loop that ignores the module's global flag
RegisterAll_NotGlobal(s, list, isGlobal, modules) ==
    IF list = <<>> \/ s.overflow \/ s.typeError THEN s
    ELSE RegisterAll_NotGlobal(
            registerProviderInModules(s, Head(list), FALSE, modules),
            Tail(list), isGlobal, modules)

RECURSIVE RegisterAll(_, _, _, _)
\* for (const provider of list) registerProviderInModules(provider, isGlobal, modules)
RegisterAll(s, list, isGlobal, modules) ==
    IF list = <<>> \/ s.overflow \/ s.typeError THEN s
    ELSE RegisterAll(
            registerProviderInModules(
               IF isGlobal
               THEN [s EXCEPT !.GlobalProviders = @ \cup {Head(list).provide}]
               ELSE s,
               Head(list), isGlobal, modules),
            Tail(list), isGlobal, modules)

\* importedProviders.find(provider => token of provider === moduleOrProvide)
FindProvider(importedProviders, moduleOrProvide) ==
    LET matching == SelectSeq(importedProviders, LAMBDA p : p.provide = moduleOrProvide)
    IN IF matching = <<>> THEN <<>> ELSE <<matching[1]>>

\* the branch of the exports loop taken for an entry that is not a class
ExportToken(s, frame, moduleOrProvide) ==
    LET found == FindProvider(frame.provs, moduleOrProvide)
        moduleProvider == found[1]
        added == addProviderTokenToModules(
                    IF frame.glob /\ s.revision = 1
                    THEN [s EXCEPT !.GlobalProviders = @ \cup {moduleOrProvide}]
                    ELSE s,
                    moduleOrProvide, frame.glob, frame.parents)
        stored == [added EXCEPT
                     !.providerDefinitions =
                         IF moduleOrProvide \in DOMAIN @ THEN @
                         ELSE Put(@, moduleOrProvide, moduleProvider)]
    IN IF found = <<>> THEN s
       ELSE CollectorCollects(stored, moduleProvider)

(***************************************************************************)
(* registerModule and registerDynamicModule are async functions calling    *)
(* each other through `await`.  A call chain is a task: a stack of frames,  *)
(* the innermost call first.  A frame holds the call's arguments, the       *)
(* metadata arrays it read on entry and the place it resumes at.            *)
(***************************************************************************)
Frame(fn, arg, parents) ==
    [fn |-> fn, arg |-> arg, parents |-> parents, pc |-> "entry", i |-> 1,
     provs |-> <<>>, exps |-> <<>>, imps |-> <<>>, glob |-> FALSE]

Top(s, t) == Head(s.tasks[t].stack)

SetTop(s, t, frame) ==
    [s EXCEPT !.tasks[t].stack = <<frame>> \o Tail(@)]

\* set the caller's resume point, then enter the callee
\* a variant that goes on after the await without having made the call
Call_NotMade(s, t, resumed, callee) ==
    [s EXCEPT !.tasks[t].stack = <<resumed>> \o Tail(@)]

Call(s, t, resumed, callee) ==
    [s EXCEPT !.tasks[t].stack = <<callee, resumed>> \o Tail(@)]

\* the innermost call returns: its caller, if any, resumes after its await
Return(s, t) ==
    LET rest == Tail(s.tasks[t].stack)
    IN [s EXCEPT !.tasks[t].stack = rest,
                 !.tasks[t].status = IF rest = <<>> THEN "done" ELSE "ready"]

\* a variant whose catch blocks take back the marks of the modules being registered
Throw_Unmarking(s, t, message) ==
    LET failing == {s.tasks[t].stack[i].arg.name : i \in 1..Len(s.tasks[t].stack)}
    IN [s EXCEPT !.tasks[t].stack = <<>>,
                 !.tasks[t].status = "threw",
                 !.tasks[t].error = message,
                 !.overflow = FALSE,
                 !.typeError = FALSE,
                 !.ModuleProviders = [m \in (DOMAIN @) \ failing |-> @[m]]]

\* every catch block on the way up rethrows: the whole chain is rejected
Throw(s, t, message) ==
    [s EXCEPT !.tasks[t].stack = <<>>,
              !.tasks[t].status = "threw",
              !.tasks[t].error = message,
              !.overflow = FALSE,
              !.typeError = FALSE]

\* what a synchronous part threw, if it threw
Thrown(s) ==
    IF s.overflow THEN "RangeError" ELSE IF s.typeError THEN "TypeError" ELSE ""

Continue(s) == [s |-> s, halt |-> FALSE]
Halt(s) == [s |-> s, halt |-> TRUE]

\* after a synchronous part of the loop body: on to the next entry, unless it threw
Proceed(done, t, next) ==
    IF Thrown(done) # "" THEN Halt(Throw(done, t, Thrown(done)))
    ELSE Continue(SetTop(done, t, next))

\* after the providers loop, unless it threw: the first class returns here,
\* the second class goes on to its exports loop
Finish(registered, t, frame) ==
    IF Thrown(registered) # "" THEN Halt(Throw(registered, t, Thrown(registered)))
    ELSE IF registered.revision = 1 THEN Halt(Return(registered, t))
    ELSE Continue(SetTop(registered, t, [frame EXCEPT !.pc = "exports", !.i = 1]))

\* after the spec's providers are registered: await this.registerModule(class, ...parents)
Enter(registered, t, resumed, callee) ==
    IF Thrown(registered) # "" THEN Halt(Throw(registered, t, Thrown(registered)))
    ELSE Continue(Call(registered, t, resumed, callee))

\* the second class hands registerProviderInModules the token, not the declaration
ProviderToken(provider) ==
    IF provider.kind = "class" THEN provider
    ELSE Decl("token", provider.provide, "", Undefined, <<>>, "", FALSE, FALSE)

ProviderTokens(list) == [i \in 1..Len(list) |-> ProviderToken(list[i])]

\* the collector check on entry of the second class: Logger.error, and on it goes
Unchecked(s, module) ==
    IF s.providerCollector THEN s
    ELSE [s EXCEPT !.errors = @ \cup {[site |-> "registerModule", token |-> module]}]

\* one step of registerModule: the first class of module-registry.ts runs
\* imports, exports, providers; the second runs imports, providers, exports
registerModuleStep(s, t) ==
    LET frame == Top(s, t)
        module == frame.arg.name
        md == s.meta[module]
    IN CASE frame.pc = "entry" ->
              IF ~s.providerCollector /\ s.revision = 1
              THEN Halt(Throw(s, t, "ProviderCollector not initialized"))
              ELSE IF isDynamicModule(frame.arg)
              THEN Continue(Call(Unchecked(s, ""), t, [frame EXCEPT !.pc = "return"],
                                 Frame("registerDynamicModule", frame.arg, frame.parents)))
              ELSE IF module \in DOMAIN s.ModuleProviders
              THEN Halt(Return(Unchecked(s, module), t))
              ELSE Continue(SetTop(
                      [Unchecked(s, module) EXCEPT
                          !.ModuleProviders = Put(@, module, {})], t,
                      [frame EXCEPT !.pc = "imports", !.i = 1,
                                    !.provs = md.providers, !.exps = md.exports,
                                    !.imps = md.imports, !.glob = md.global]))
         [] frame.pc = "imports" ->
              IF frame.i > Len(frame.imps)
              THEN Continue(SetTop(s, t,
                      [frame EXCEPT !.pc = IF s.revision = 1 THEN "exports" ELSE "providers",
                                    !.i = 1]))
              ELSE LET importModule == frame.imps[frame.i]
                       next == [frame EXCEPT !.i = @ + 1]
                   IN IF isDynamicModule(importModule)
                      THEN Continue(Call(s, t, next,
                              Frame("registerDynamicModule", importModule,
                                    <<module>> \o frame.parents)))
                      ELSE IF importModule.k = "class" /\ isModule(importModule.name)
                      THEN Continue(Call(s, t, next,
                              Frame("registerModule", importModule,
                                    <<module>> \o frame.parents)))
                      ELSE Continue(SetTop(s, t, next))
         [] frame.pc = "exports" ->
              IF frame.i > Len(frame.exps)
              THEN IF s.revision = 1
                   THEN Continue(SetTop(s, t, [frame EXCEPT !.pc = "providers"]))
                   ELSE Halt(Return(s, t))
              ELSE LET moduleOrProvide == frame.exps[frame.i]
                       next == [frame EXCEPT !.i = @ + 1]
                   IN IF ~isModule(moduleOrProvide)
                      THEN Proceed(ExportToken(s, frame, moduleOrProvide), t, next)
                      ELSE Continue(Call(s, t, next,
                              Frame("registerModule", ClassEntity(moduleOrProvide),
                                    frame.parents)))
         [] frame.pc = "providers" ->
              Finish(RegisterAll(s,
                                 IF s.revision = 1 THEN frame.provs
                                 ELSE ProviderTokens(frame.provs),
                                 frame.glob, <<module>>),
                     t, frame)
         [] OTHER -> Halt(Return(s, t))

\* a variant that defines the spec's lists in place of the existing metadata
MergeMetadata_Replacing(md, cfg) ==
    [md EXCEPT !.controllers = cfg.controllers,
               !.providers = cfg.providers,
               !.imports = cfg.imports,
               !.exports = cfg.exports]

\* Module(mergedModuleConfig)(dynamicModuleClass): the spec's lists come first
MergeMetadata(md, cfg) ==
    [md EXCEPT !.controllers = cfg.controllers \o @,
               !.providers = cfg.providers \o @,
               !.imports = cfg.imports \o @,
               !.exports = cfg.exports \o @]

\* one step of registerDynamicModule
registerDynamicModuleStep(s, t) ==
    LET frame == Top(s, t)
        dynamicModuleConfig ==
            IF frame.arg.k = "promise" THEN s.promises[frame.arg.name].cfg
            ELSE frame.arg.cfg
        dynamicModuleClass == dynamicModuleConfig.module
    IN CASE frame.pc = "entry" ->
              IF ~s.providerCollector
              THEN Halt(Throw(s, t, "ProviderCollector not initialized"))
              ELSE IF frame.arg.k = "promise"
              THEN Halt([SetTop(s, t, [frame EXCEPT !.pc = "merge"])
                           EXCEPT !.tasks[t].status = "awaiting",
                                  !.tasks[t].waits = frame.arg.name])
              ELSE Continue(SetTop(s, t, [frame EXCEPT !.pc = "merge"]))
         [] frame.pc = "merge" ->
              IF dynamicModuleClass = ""
              THEN IF s.revision = 1
                   THEN Halt(Throw(s, t, "Invalid dynamic module configuration"))
                   ELSE Halt(Return(s, t))
              ELSE Enter(RegisterAll([s EXCEPT !.meta[dynamicModuleClass] =
                                                  MergeMetadata(@, dynamicModuleConfig)],
                                     dynamicModuleConfig.providers,
                                     s.meta[dynamicModuleClass].global,
                                     <<dynamicModuleClass>> \o frame.parents),
                         t, [frame EXCEPT !.pc = "return"],
                         Frame("registerModule", ClassEntity(dynamicModuleClass),
                               frame.parents))
         [] OTHER -> Halt(Return(s, t))

RECURSIVE Run(_, _)
RECURSIVE RunOn(_, _)
\* run task t up to its next await
Run(s, t) ==
    RunOn(IF Top(s, t).fn = "registerModule"
          THEN registerModuleStep(s, t)
          ELSE registerDynamicModuleStep(s, t),
          t)

\* after a step: stop at an await, a return of the outermost call or a throw
RunOn(r, t) == IF r.halt THEN r.s ELSE Run(r.s, t)

\* a caller invokes registerModule(module): the call runs up to its first await
StartTask(s, module) ==
    LET t == Len(s.tasks) + 1
        started == [s EXCEPT !.tasks = Append(@,
                       [stack |-> <<Frame("registerModule", ClassEntity(module), <<>>)>>,
                        status |-> "ready", waits |-> "", error |-> "", arg |-> module])]
    IN Run(started, t)

\* a caller invokes registerDynamicModule(entity)
StartDynamicTask(s, entity) ==
    LET t == Len(s.tasks) + 1
        started == [s EXCEPT !.tasks = Append(@,
                       [stack |-> <<Frame("registerDynamicModule", entity, <<>>)>>,
                        status |-> "ready", waits |-> "", error |-> "", arg |-> "Dyn"])]
    IN Run(started, t)

(***************************************************************************)
(* ControllerRegistry.initializeControllers and RouterExplorer.explore      *)
(***************************************************************************)
\* one iteration of the loop of initializeControllers: it ends at the await
initializeController(s, controller) ==
    collectProviders(s, ClassProvider(controller), MaxDepth)

\* paramtypes.map(p => this.providerCollector.getProvider(p))
GetProvider(s, token) ==
    IF token \in DOMAIN s.providers THEN s.providers[token] ELSE Undefined

RECURSIVE registerControllerRoutes(_, _)
\* getProvider(Controller) || new Controller(...deps), for each controller in turn;
\* a constructor that throws ends the exploration
registerControllerRoutes(s, controllers) ==
    IF controllers = <<>> \/ s.exploreFailed THEN s
    ELSE LET Controller == Head(controllers)
             deps == [i \in 1..Len(paramtypes(Controller)) |->
                         GetProvider(s, paramtypes(Controller)[i])]
             created == [Invoked(s, ClassProvider(Controller), deps)
                           EXCEPT !.exploreFailed = Controller \in ThrowingClasses]
         IN registerControllerRoutes(
               IF GetProvider(s, Controller) \in {Null, Undefined} THEN created ELSE s,
               Tail(controllers))

RECURSIVE explore(_, _, _)
RECURSIVE exploreImports(_, _, _)
explore(s, module, fuel) ==
    IF fuel = 0 THEN [s EXCEPT !.exploreFailed = TRUE]
    ELSE exploreImports(registerControllerRoutes(s, s.meta[module].controllers),
                        s.meta[module].imports, fuel)

\* Reflect.getMetadata finds nothing on a spec object or on a promise
exploreImports(s, imports, fuel) ==
    IF imports = <<>> \/ s.exploreFailed THEN s
    ELSE exploreImports(
            IF Head(imports).k = "class" THEN explore(s, Head(imports).name, fuel - 1) ELSE s,
            Tail(imports), fuel)

(***************************************************************************)
(* The program state.                                                       *)
(***************************************************************************)
VARIABLES
    ModuleProviders,      \* ModuleRegistry: module -> set of provider tokens
    GlobalProviders,      \* ModuleRegistry: tokens of global modules
    providerDefinitions,  \* ModuleRegistry: token -> provider declaration
    providerCollector,    \* ModuleRegistry: a ProviderCollector is attached
    providers,            \* ProviderCollector: token -> instance or value
    meta,                 \* @Module metadata of every class
    promises,             \* promises of dynamic module specs
    tasks,                \* registerModule call chains
    inflight,             \* promises returned by async factories, not yet settled
    calls,                \* declaration -> number of calls of its constructor or factory
    nextId,               \* objects created so far
    invocations,          \* constructor and factory calls with their arguments
    errors,               \* Logger.error calls
    usage,                \* "facade": NestApplication.init; "direct": registerModule and
                          \* resolveProvider called directly; "dynamic": registerDynamicModule too
    appPc,                \* position of NestApplication.init
    ctlIndex,             \* next controller of initializeControllers
    revision,             \* 1 or 2: the ModuleRegistry class of module-registry.ts loaded
    useFilters,           \* @UseFilters metadata: controller class or handler -> filters
    exceptionFilterManager,  \* ControllerRegistry was given an ExceptionFilterManager
    exceptionFilters,     \* ExceptionFilterManager: the registered filter instances
    globalExceptionFilters,  \* ExceptionFilterManager: the global filter instances
    filterPc,             \* position of ControllerRegistry.initializeControllers
    handled,              \* calls of filter.catch: which instance, for whose exception
    args,                 \* the `new cls(...params)` or literal a throw statement evaluates
    exception,            \* the value that statement threw
    logged,               \* Logger.error calls of the ExternalExceptionFilter
    outcome,              \* what ExternalExceptionFilter.catch did: the response sent
    app,                  \* the Express application: the handlers installed, in order
    middlewares,          \* MiddlewareManager: class -> instance, until forRoutes clears it
    excludeMiddlewares,   \* MiddlewareManager: "method:path" -> excluded route
    request,              \* the request served last
    executed              \* the middlewares run for it

vars == <<ModuleProviders, GlobalProviders, providerDefinitions, providerCollector,
          providers, meta, promises, tasks, inflight, calls,
          nextId, invocations, errors, usage, appPc, ctlIndex, revision,
          useFilters, exceptionFilterManager, exceptionFilters, globalExceptionFilters,
          filterPc, handled, args, exception, logged, outcome,
          app, middlewares, excludeMiddlewares, request, executed>>

middlewareVars == <<app, middlewares, excludeMiddlewares, request, executed>>

\* what was constructed, logged and sent by the exception classes and the default filter
exceptionVars == <<args, exception, logged, outcome>>

filterVars == <<useFilters, exceptionFilterManager, exceptionFilters,
                globalExceptionFilters, filterPc, handled, args, exception, logged, outcome,
                app, middlewares, excludeMiddlewares, request, executed>>

State ==
    [ModuleProviders |-> ModuleProviders, GlobalProviders |-> GlobalProviders,
     providerDefinitions |-> providerDefinitions, providerCollector |-> providerCollector,
     providers |-> providers, meta |-> meta, promises |-> promises, tasks |-> tasks,
     inflight |-> inflight, calls |-> calls,
     nextId |-> nextId, invocations |-> invocations, errors |-> errors,
     revision |-> revision,
     overflow |-> FALSE, typeError |-> FALSE, exploreFailed |-> FALSE]

Assigns(s) ==
    /\ ModuleProviders' = s.ModuleProviders
    /\ GlobalProviders' = s.GlobalProviders
    /\ providerDefinitions' = s.providerDefinitions
    /\ providerCollector' = s.providerCollector
    /\ providers' = s.providers
    /\ meta' = s.meta
    /\ promises' = s.promises
    /\ tasks' = s.tasks
    /\ inflight' = s.inflight
    /\ calls' = s.calls
    /\ nextId' = s.nextId
    /\ invocations' = s.invocations
    /\ errors' = s.errors
    /\ revision' = s.revision

\* a step of the container: the exception filters are not touched
Becomes(s) == Assigns(s) /\ UNCHANGED filterVars

(***************************************************************************)
(* The module graphs explored.                                              *)
(***************************************************************************)
ProviderPool ==
    {UseValue("T", "a"), UseValue("T", "b"), ClassProvider("SvcA"), ClassProvider("Bad"),
     UseFactory("U", <<"T">>), UseFactoryAsync("U", <<"T">>, FALSE),
     UseFactoryAsync("U", <<"T">>, TRUE), UseExisting("U", "T")}

RECURSIVE ListsUpTo(_, _)
\* the lists of at most n different members of S
ListsUpTo(S, n) ==
    IF n = 0 THEN {<<>>}
    ELSE LET shorter == ListsUpTo(S, n - 1)
         IN shorter \cup {<<x>> \o l : x \in S, l \in {l \in shorter : Len(l) = n - 1}}

Distinct(list) == \A i, j \in 1..Len(list) : list[i] = list[j] => i = j

LeafProviderLists == {l \in ListsUpTo(ProviderPool, MaxProviders) : Distinct(l)}
LeafExportLists == {<<>>, <<"T", "U">>, <<"SvcA">>}
\* the module graph around the leaf module, and who drives the registration
Shapes ==
    {[topology |-> "chain", rootProviders |-> <<>>, controllers |-> <<>>, attached |-> TRUE],
     [topology |-> "chain", rootProviders |-> <<UseValue("T", "m"), UseClass("X", "Bad")>>,
      controllers |-> <<>>, attached |-> TRUE],
     [topology |-> "diamond", rootProviders |-> <<>>, controllers |-> <<>>, attached |-> TRUE],
     [topology |-> "global", rootProviders |-> <<>>, controllers |-> <<>>, attached |-> TRUE],
     [topology |-> "spec", rootProviders |-> <<>>, controllers |-> <<>>, attached |-> TRUE],
     [topology |-> "promise", rootProviders |-> <<>>, controllers |-> <<>>, attached |-> TRUE],
     [topology |-> "forRoot", rootProviders |-> <<>>, controllers |-> <<>>, attached |-> TRUE],
     [topology |-> "chain", rootProviders |-> <<ClassProvider("SvcA")>>,
      controllers |-> <<"BadCtl", "Ctl">>, attached |-> TRUE],
     [topology |-> "promise", rootProviders |-> <<ClassProvider("SvcA")>>,
      controllers |-> <<"Ctl">>, attached |-> TRUE],
     [topology |-> "layers",
      rootProviders |-> <<ClassProvider("Ctl"), ClassProvider("SvcA"), UseValue("X", "o"),
                          ClassProvider("Pair")>>,
      controllers |-> <<"CtlU">>, attached |-> TRUE],
     [topology |-> "cycle", rootProviders |-> <<>>, controllers |-> <<>>, attached |-> TRUE],
     [topology |-> "reexport", rootProviders |-> <<>>, controllers |-> <<>>, attached |-> TRUE],
     [topology |-> "feature", rootProviders |-> <<ClassProvider("SvcA")>>,
      controllers |-> <<"Ctl">>, attached |-> TRUE],
     [topology |-> "nomodule", rootProviders |-> <<UseValue("T", "m")>>,
      controllers |-> <<>>, attached |-> TRUE],
     [topology |-> "nomodulePromise", rootProviders |-> <<UseValue("T", "m")>>,
      controllers |-> <<>>, attached |-> TRUE],
     [topology |-> "chain", rootProviders |-> <<>>, controllers |-> <<>>, attached |-> FALSE],
     [topology |-> "spec", rootProviders |-> <<>>, controllers |-> <<>>, attached |-> FALSE]}

\* the spec DatabaseModule.forRoot builds from its entities
ForRootSpec(leafProviders) ==
    LET all == <<UseValue("X", "1")>> \o leafProviders
    IN DynamicModule("Dyn", all, [i \in 1..Len(all) |-> all[i].provide])

\* a spec object that has providers and exports but no module field
MalformedSpec == DynamicModule("", <<UseValue("X", "1")>>, <<"X">>)

Metadata(topology, leafProviders, leafExports, rootProviders, controllers) ==
    [m \in Modules \cup Classes |->
       CASE m = "Root" ->
              [NoMetadata EXCEPT
                 !.imports =
                    CASE topology \in {"chain", "feature"} -> <<ClassEntity("Leaf")>>
                      [] topology \in {"layers", "cycle"} -> <<ClassEntity("A")>>
                      [] topology \in {"diamond", "global", "reexport"} ->
                           <<ClassEntity("A"), ClassEntity("B")>>
                      [] topology = "spec" -> <<SpecEntity(ForRootSpec(leafProviders))>>
                      [] topology = "nomodule" -> <<SpecEntity(MalformedSpec)>>
                      [] OTHER -> <<PromiseEntity("p1")>>,
                 !.providers = rootProviders,
                 !.controllers = controllers]
         [] m = "A" /\ topology = "layers" ->
              [NoMetadata EXCEPT !.imports = <<ClassEntity("Leaf")>>,
                                 !.providers = <<UseFactory("U", <<"T">>)>>,
                                 !.exports = <<"T">>]
         [] m = "A" /\ topology = "cycle" ->
              [NoMetadata EXCEPT !.imports = <<ClassEntity("B")>>,
                                 !.providers = <<ClassProvider("CycA"), ClassProvider("CycB")>>]
         [] m = "B" /\ topology = "cycle" ->
              [NoMetadata EXCEPT !.imports = <<ClassEntity("A")>>,
                                 !.providers = leafProviders]
         [] m = "A" /\ topology = "reexport" ->
              [NoMetadata EXCEPT !.imports = <<ClassEntity("Leaf")>>,
                                 !.exports = <<"Leaf">>]
         [] m = "B" /\ topology = "reexport" ->
              [NoMetadata EXCEPT !.imports = <<ClassEntity("A")>>]
         [] m = "A" \/ (m = "B" /\ topology # "global") ->
              [NoMetadata EXCEPT !.imports = <<ClassEntity("Leaf")>>]
         [] m = "Leaf" /\ topology \in {"layers", "reexport"} ->
              [NoMetadata EXCEPT !.providers = leafProviders, !.exports = <<"T">>]
         [] m = "Leaf" /\ topology = "feature" ->
              [NoMetadata EXCEPT !.providers = leafProviders, !.controllers = <<"CtlU">>]
         [] m = "Leaf" /\ topology \in {"chain", "diamond", "global"} ->
              [NoMetadata EXCEPT !.providers = leafProviders, !.exports = leafExports,
                                 !.global = (topology = "global")]
         [] m = "Dyn" ->
              [NoMetadata EXCEPT !.providers = <<UseValue("META", "META")>>,
                                 !.exports = <<"META">>]
         [] OTHER -> NoMetadata]

\* no exception object exists and the default filter was never called
\* no middleware was applied and no request served
NoMiddleware ==
    /\ app = <<>>
    /\ middlewares = <<>>
    /\ excludeMiddlewares = <<>>
    /\ request = Undefined
    /\ executed = <<>>

NothingThrown ==
    /\ args = <<>>
    /\ exception = Undefined
    /\ logged = <<>>
    /\ outcome = Undefined
    /\ NoMiddleware

\* no controller carries @UseFilters and the registry has no filter manager
NoFilters ==
    /\ useFilters = <<>>
    /\ exceptionFilterManager = FALSE
    /\ exceptionFilters = <<>>
    /\ globalExceptionFilters = <<>>
    /\ filterPc = [pc |-> "new", i |-> 1]
    /\ handled = {}
    /\ NothingThrown

\* the program after construction, with class number rev of module-registry.ts
Start(rev) ==
    /\ revision = rev
    /\ NoFilters
    /\ ModuleProviders = <<>>
    /\ GlobalProviders = {}
    /\ providerDefinitions = <<>>
    /\ providers = <<>>
    /\ \E shape \in Shapes, leafProviders \in LeafProviderLists,
          leafExports \in LeafExportLists :
          /\ (shape.topology \in {"chain", "diamond"} /\ shape.attached) \/ leafExports = <<>>
          /\ shape.topology \in {"layers", "reexport", "feature", "nomodule", "nomodulePromise"}
                => leafProviders = <<UseValue("T", "a")>>
          /\ shape.topology = "cycle" => leafProviders = <<UseValue("T", "b")>>
          /\ providerCollector = shape.attached
          /\ usage = IF shape.controllers # <<>> THEN "facade"
                     ELSE IF shape.topology = "spec" /\ ~shape.attached THEN "dynamic"
                     ELSE IF shape.topology \in {"nomodule", "nomodulePromise"} THEN "dynamic"
                     ELSE "direct"
          /\ meta = Metadata(shape.topology, leafProviders, leafExports,
                             shape.rootProviders, shape.controllers)
          /\ promises =
               IF shape.topology \in {"promise", "forRoot", "nomodulePromise"}
               THEN [id \in {"p1"} |->
                       [state |-> IF shape.topology = "forRoot" THEN "never" ELSE "pending",
                        cfg |-> IF shape.topology = "nomodulePromise" THEN MalformedSpec
                                ELSE ForRootSpec(leafProviders)]]
               ELSE <<>>
    /\ tasks = <<>>
    /\ inflight = {}
    /\ calls = <<>>
    /\ nextId = 0
    /\ invocations = {}
    /\ errors = {}
    /\ appPc = "new"
    /\ ctlIndex = 1

Init == Start(1)

(***************************************************************************)
(* Actions.                                                                 *)
(***************************************************************************)
\* a suspended call chain resumes after its await
Resume(t) ==
    /\ \/ tasks[t].status = "ready"
       \/ /\ tasks[t].status = "awaiting"
          /\ promises[tasks[t].waits].state = "settled"
    /\ Becomes(Run(State, t))
    /\ UNCHANGED <<usage, appPc, ctlIndex>>

\* the promise of a dynamic module spec is resolved
SettlePromise(id) ==
    /\ promises[id].state = "pending"
    /\ promises' = [promises EXCEPT ![id].state = "settled"]
    /\ UNCHANGED <<ModuleProviders, GlobalProviders, providerDefinitions, providerCollector,
                   providers, meta, tasks, inflight, calls, nextId,
                   invocations, errors, usage, appPc, ctlIndex, revision>>
    /\ UNCHANGED filterVars

\* the .then or .catch callback of an async factory's promise
SettleFactory(pr) ==
    /\ pr \in inflight
    /\ inflight' = inflight \ {pr}
    /\ providers' = Put(providers, pr.token, IF pr.rejects THEN Null ELSE pr.value)
    /\ errors' = IF pr.rejects
                 THEN errors \cup {[site |-> "useFactory", token |-> pr.token]}
                 ELSE errors
    /\ UNCHANGED <<ModuleProviders, GlobalProviders, providerDefinitions, providerCollector,
                   meta, promises, tasks, calls, nextId,
                   invocations, usage, appPc, ctlIndex, revision>>
    /\ UNCHANGED filterVars

\* the root module and the module classes that some imports list names
ModulesOfTheGraph ==
    {"Root"} \cup {m \in Modules : \E n \in Modules :
                      \E i \in 1..Len(meta[n].imports) : meta[n].imports[i] = ClassEntity(m)}

\* registerModule(module) called on the registry by an outside caller
RegisterModuleCall(module) ==
    /\ usage \in {"direct", "dynamic"}
    /\ module \in ModulesOfTheGraph
    /\ Len(tasks) < MaxCalls
    /\ Becomes(StartTask(State, module))
    /\ UNCHANGED <<usage, appPc, ctlIndex>>

\* the state an outside resolveProvider call leaves; a RangeError reaches the caller
AfterResolve(r) ==
    /\ Cardinality(r.s.inflight) <= MaxInflight
    /\ Becomes([r.s EXCEPT !.overflow = FALSE])

\* resolveProvider(token) called on the collector by an outside caller
ResolveProviderCall(token) ==
    /\ usage \in {"direct", "dynamic"}
    /\ AfterResolve(resolveProvider(State, token, MaxDepth))
    /\ UNCHANGED <<usage, appPc, ctlIndex>>

\* the dynamic module specs and promises the root module imports
DynamicImports ==
    {meta["Root"].imports[i] : i \in {j \in 1..Len(meta["Root"].imports) :
                                         isDynamicModule(meta["Root"].imports[j])}}

\* registerDynamicModule(entity) called on the registry by an outside caller
RegisterDynamicModuleCall(entity) ==
    /\ usage = "dynamic"
    /\ entity \in DynamicImports
    /\ Len(tasks) < MaxCalls
    /\ Becomes(StartDynamicTask(State, entity))
    /\ UNCHANGED <<usage, appPc, ctlIndex>>

\* NestApplication.init up to the await inside initMiddleware
StartInit ==
    /\ usage = "facade"
    /\ appPc = "new"
    /\ Becomes(StartTask(State, "Root"))
    /\ appPc' = "initMiddleware"
    /\ UNCHANGED <<usage, ctlIndex>>

\* a variant of init that calls registerModule(root) without awaiting it
FinishInitMiddleware_NotAwaited ==
    /\ appPc = "initMiddleware"
    /\ appPc' = "controllers"
    /\ UNCHANGED <<ModuleProviders, GlobalProviders, providerDefinitions, providerCollector,
                   providers, meta, promises, tasks, inflight, calls,
                   nextId, invocations, errors, usage, ctlIndex, revision>>
    /\ UNCHANGED filterVars

\* initMiddleware resumes once registerModule(root) has settled
FinishInitMiddleware ==
    /\ appPc = "initMiddleware"
    /\ tasks[1].status \in {"done", "threw"}
    /\ appPc' = IF tasks[1].status = "done" THEN "controllers" ELSE "failed"
    /\ UNCHANGED <<ModuleProviders, GlobalProviders, providerDefinitions, providerCollector,
                   providers, meta, promises, tasks, inflight, calls,
                   nextId, invocations, errors, usage, ctlIndex, revision>>
    /\ UNCHANGED filterVars

\* the try/catch around collectProviders(controller): log and rethrow, or go on
AfterCollect(s, controller) ==
    IF s.overflow
    THEN /\ Becomes([s EXCEPT !.overflow = FALSE,
                              !.errors = @ \cup {[site |-> "initializeControllers",
                                                  token |-> controller]}])
         /\ appPc' = "failed"
         /\ ctlIndex' = ctlIndex
    ELSE /\ Becomes(s)
         /\ appPc' = appPc
         /\ ctlIndex' = ctlIndex + 1

\* one iteration of initializeControllers, called from init
InitializeController ==
    /\ appPc = "controllers"
    /\ ctlIndex <= Len(meta["Root"].controllers)
    /\ AfterCollect(initializeController(State, meta["Root"].controllers[ctlIndex]),
                    meta["Root"].controllers[ctlIndex])
    /\ UNCHANGED usage

\* init ends, or is rejected by a controller constructor that throws in explore
AfterExplore(s) ==
    /\ Becomes([s EXCEPT !.exploreFailed = FALSE])
    /\ appPc' = IF s.exploreFailed THEN "failed" ELSE "done"

\* init after initializeControllers has returned: routerExplorer.explore(module)
ExploreRoutes ==
    /\ appPc = "controllers"
    /\ ctlIndex > Len(meta["Root"].controllers)
    /\ AfterExplore(explore(State, "Root", MaxDepth))
    /\ UNCHANGED <<usage, ctlIndex>>

Next ==
    \/ \E t \in 1..Len(tasks) : Resume(t)
    \/ \E id \in DOMAIN promises : SettlePromise(id)
    \/ \E pr \in inflight : SettleFactory(pr)
    \/ \E module \in {"Root", "Leaf"} : RegisterModuleCall(module)
    \/ \E entity \in DynamicImports : RegisterDynamicModuleCall(entity)
    \/ \E token \in {"T", "U"} : ResolveProviderCall(token)
    \/ StartInit
    \/ FinishInitMiddleware
    \/ InitializeController
    \/ ExploreRoutes

Spec == Init /\ [][Next]_vars

\* the same program with the second ModuleRegistry class of module-registry.ts
InitRev2 == Start(2)
SpecRev2 == InitRev2 /\ [][Next]_vars

\* the start-ups whose root module imports a dynamic module
DynamicInit ==
    /\ Init
    /\ \E i \in 1..Len(meta["Root"].imports) : isDynamicModule(meta["Root"].imports[i])

\* the scheduling of the event loop: a runnable continuation is eventually run
\* task t has a continuation the event loop can run: the guard of Resume(t)
Runnable(t) ==
    \/ tasks[t].status = "ready"
    \/ /\ tasks[t].status = "awaiting"
       /\ promises[tasks[t].waits].state = "settled"

\* weak fairness of Resume, with its enabling condition written out as Runnable
ResumeFairness ==
    \/ []<>(\A t \in 1..Len(tasks) : ~Runnable(t))
    \/ []<><<\E t \in 1..Len(tasks) : Resume(t)>>_vars

FairSpec ==
    /\ DynamicInit
    /\ [][Next]_vars
    /\ ResumeFairness
    /\ WF_vars(\E id \in DOMAIN promises : SettlePromise(id))
    /\ WF_vars(\E pr \in inflight : SettleFactory(pr))
    /\ WF_vars(StartInit \/ FinishInitMiddleware \/ InitializeController \/ ExploreRoutes)

\* the start-ups of an outside caller whose module graph is made of module classes only
StaticInit ==
    /\ Init
    /\ usage = "direct"
    /\ DynamicImports = {}

\* what happens on a registry driven by outside calls of registerModule
StaticNext ==
    \/ \E t \in 1..Len(tasks) : Resume(t)
    \/ \E pr \in inflight : SettleFactory(pr)
    \/ \E module \in {"Root", "Leaf"} : RegisterModuleCall(module)

StaticSpec == StaticInit /\ [][StaticNext]_vars /\ ResumeFairness

(***************************************************************************)
(* Exception filters: @UseFilters, the ControllerRegistry that registers    *)
(* them with an ExceptionFilterManager, and handleException.                *)
(***************************************************************************)
FilterClasses == {"CatchAll", "CatchE1", "Faulty"}
ExceptionClasses == {"E1", "E2"}

\* FILTER_CATCH_EXCEPTIONS of a filter class: no entry means every exception
catchExceptions(filter) == IF filter = "CatchE1" THEN {"E1"} ELSE {}

\* filter classes whose catch method throws
FaultyFilters == {"Faulty"}

\* the controllers handed to initializeControllers
FilterControllers == <<"FCtlA", "FCtlB">>

\* Object.getOwnPropertyNames(controller.prototype)
ownPropertyNames(controller) ==
    IF controller = "FCtlA" THEN <<"constructor", "m1", "m2">> ELSE <<"constructor", "m1">>

\* what carries metadata: a controller class (method "") or the function of a handler;
\* prototype.constructor is the class itself
Target(controller, propName) ==
    [controller |-> controller, method |-> IF propName = "constructor" THEN "" ELSE propName]

\* the handler methods of a controller: its own property names but the constructor
HandlersOf(controller) ==
    {Target(controller, ownPropertyNames(controller)[j]) :
        j \in 2..Len(ownPropertyNames(controller))}

Handlers == UNION {HandlersOf(FilterControllers[k]) : k \in 1..Len(FilterControllers)}

Targets == Handlers \cup {Target(FilterControllers[k], "constructor") :
                            k \in 1..Len(FilterControllers)}

\* the scope app.useGlobalFilters binds to
Everywhere == [controller |-> "", method |-> ""]

\* the filter handleException falls back to
ExternalFilter == [cls |-> "external", origin |-> Everywhere]

RECURSIVE addExceptionFilters(_, _, _)
\* filters.forEach(filter => addExceptionFilter(filter)): `new filter()` put in front.
\* origin records the target whose metadata the instance was built for.
addExceptionFilters(list, filters, origin) ==
    IF filters = <<>> THEN list
    ELSE addExceptionFilters(<<[cls |-> Head(filters), origin |-> origin]>> \o list,
                             Tail(filters), origin)

RECURSIVE addMethodFilters(_, _, _, _)
\* the loop over the own property names of the prototype
addMethodFilters(list, metadata, controller, propNames) ==
    IF propNames = <<>> THEN list
    ELSE addMethodFilters(
            addExceptionFilters(list, metadata[Target(controller, Head(propNames))],
                                Target(controller, Head(propNames))),
            metadata, controller, Tail(propNames))

\* the body of initializeControllers after the await: class filters, then method filters
registerFilters(list, metadata, controller) ==
    addMethodFilters(
        addExceptionFilters(list, metadata[Target(controller, "constructor")],
                            Target(controller, "constructor")),
        metadata, controller, ownPropertyNames(controller))

shouldHandleException(filter, err) ==
    catchExceptions(filter.cls) = {} \/ err \in catchExceptions(filter.cls)

RECURSIVE TryFilters_Uncaught(_, _)
\* a variant without the try/catch around filter.catch: what a filter throws escapes
TryFilters_Uncaught(list, err) ==
    IF list = <<>> THEN [called |-> <<>>, returned |-> FALSE]
    ELSE IF ~shouldHandleException(Head(list), err) THEN TryFilters_Uncaught(Tail(list), err)
    ELSE [called |-> <<Head(list)>>, returned |-> TRUE]

RECURSIVE TryFilters(_, _)
\* one of the two loops of handleException: the instances whose catch is called,
\* up to the first one that does not throw
TryFilters(list, err) ==
    IF list = <<>> THEN [called |-> <<>>, returned |-> FALSE]
    ELSE IF ~shouldHandleException(Head(list), err) THEN TryFilters(Tail(list), err)
    ELSE IF Head(list).cls \notin FaultyFilters
    THEN [called |-> <<Head(list)>>, returned |-> TRUE]
    ELSE [called |-> <<Head(list)>> \o TryFilters(Tail(list), err).called,
          returned |-> TryFilters(Tail(list), err).returned]

\* the global loop and the external filter, reached when no registered filter returned
TryGlobal(own, global) ==
    IF own.returned THEN own.called
    ELSE own.called \o global.called \o
         (IF global.returned THEN <<>> ELSE <<ExternalFilter>>)

\* handleException(err, context, externalFilter): the filters whose catch it calls
handleException(registered, global, err) ==
    TryGlobal(TryFilters(registered, err), TryFilters(global, err))

\* a container with no modules, and some @UseFilters on the controllers and handlers
FilterInit ==
    /\ revision = 1
    /\ ModuleProviders = <<>>
    /\ GlobalProviders = {}
    /\ providerDefinitions = <<>>
    /\ providerCollector = TRUE
    /\ providers = <<>>
    /\ meta = [m \in Modules \cup Classes |-> NoMetadata]
    /\ promises = <<>>
    /\ tasks = <<>>
    /\ inflight = {}
    /\ calls = <<>>
    /\ nextId = 0
    /\ invocations = {}
    /\ errors = {}
    /\ usage = "filters"
    /\ appPc = "new"
    /\ ctlIndex = 1
    /\ useFilters \in [Targets -> {<<>>} \cup {<<f>> : f \in FilterClasses}]
    /\ exceptionFilterManager \in BOOLEAN
    /\ exceptionFilters = <<>>
    /\ globalExceptionFilters = <<>>
    /\ filterPc = [pc |-> "new", i |-> 1]
    /\ handled = {}
    /\ NothingThrown

\* the argument lists app.useGlobalFilters is called with
GlobalFilterLists ==
    {<<filter>> : filter \in FilterClasses}
    \cup {<<"Faulty", "CatchE1">>, <<"CatchE1", "CatchAll">>, <<"CatchAll", "CatchE1">>}

\* app.useGlobalFilters(...filters) before the application is initialized:
\* the instances are added behind those the set already holds
AddGlobalFilters(filters) ==
    /\ exceptionFilterManager
    /\ filterPc.pc = "new"
    /\ globalExceptionFilters = <<>>
    /\ globalExceptionFilters' =
          globalExceptionFilters \o
          [i \in 1..Len(filters) |-> [cls |-> filters[i], origin |-> Everywhere]]
    /\ UNCHANGED <<useFilters, exceptionFilterManager, exceptionFilters, filterPc, handled>>
    /\ UNCHANGED exceptionVars
    /\ UNCHANGED middlewareVars
    /\ UNCHANGED <<ModuleProviders, GlobalProviders, providerDefinitions, providerCollector,
                   providers, meta, promises, tasks, inflight, calls, nextId,
                   invocations, errors, usage, appPc, ctlIndex, revision>>

\* initializeControllers is called: up to the await of the first collectProviders
InitializeControllers ==
    /\ filterPc.pc = "new"
    /\ Assigns(initializeController(State, FilterControllers[1]))
    /\ filterPc' = [pc |-> "filters", i |-> 1]
    /\ UNCHANGED <<useFilters, exceptionFilterManager, exceptionFilters,
                   globalExceptionFilters, handled, usage, appPc, ctlIndex>>
    /\ UNCHANGED exceptionVars
    /\ UNCHANGED middlewareVars

\* the state the next iteration's collectProviders leaves, when there is a next one
NextController(i) ==
    IF i < Len(FilterControllers)
    THEN initializeController(State, FilterControllers[i + 1])
    ELSE State

\* after the await: the filters of this controller, then on to the next controller
RegisterFilters ==
    /\ filterPc.pc = "filters"
    /\ exceptionFilters' =
          IF exceptionFilterManager
          THEN registerFilters(exceptionFilters, useFilters, FilterControllers[filterPc.i])
          ELSE exceptionFilters
    /\ Assigns(NextController(filterPc.i))
    /\ filterPc' = IF filterPc.i < Len(FilterControllers)
                   THEN [filterPc EXCEPT !.i = @ + 1]
                   ELSE [filterPc EXCEPT !.pc = "done"]
    /\ UNCHANGED <<useFilters, exceptionFilterManager, globalExceptionFilters, handled,
                   usage, appPc, ctlIndex>>
    /\ UNCHANGED exceptionVars
    /\ UNCHANGED middlewareVars

\* a request reaches handler h, which throws err: the route's catch block calls
\* handleException
HandlerThrows(h, err) ==
    /\ exceptionFilterManager
    /\ filterPc.pc = "done"
    /\ handled' = handled \cup
          {[handler |-> h, err |-> err,
            filter |-> handleException(exceptionFilters, globalExceptionFilters, err)[k]] :
              k \in 1..Len(handleException(exceptionFilters, globalExceptionFilters, err))}
    /\ UNCHANGED <<useFilters, exceptionFilterManager, exceptionFilters,
                   globalExceptionFilters, filterPc>>
    /\ UNCHANGED exceptionVars
    /\ UNCHANGED middlewareVars
    /\ UNCHANGED <<ModuleProviders, GlobalProviders, providerDefinitions, providerCollector,
                   providers, meta, promises, tasks, inflight, calls, nextId,
                   invocations, errors, usage, appPc, ctlIndex, revision>>

FilterNext ==
    \/ \E filters \in GlobalFilterLists : AddGlobalFilters(filters)
    \/ InitializeControllers
    \/ RegisterFilters
    \/ \E h \in Handlers, err \in ExceptionClasses : HandlerThrows(h, err)

FilterSpec == FilterInit /\ [][FilterNext]_vars

(***************************************************************************)
(* Exceptions: HttpException and InternalServerErrorException              *)
(* (common/exceptions/internal-server-error.exception.ts) and the default  *)
(* ExternalExceptionFilter (core/exceptions/external-exception-filter.ts). *)
(* Values are those of the Instance Cache plus numbers, arrays and object  *)
(* literals; an Error object is a record of its class and own fields.      *)
(***************************************************************************)
Num(x) == [k |-> "number", v |-> x]
Arr(items) == [k |-> "array", v |-> items]
Obj(fields) == [k |-> "object", v |-> fields]
NoFields == [name \in {} |-> Undefined]

\* !value
Falsy(value) == value \in {Undefined, Null, Str(""), Num(0)}

\* shared.utils isString, isNumber, isObject
isString(value) == value.k = "str"
isNumber(value) == value.k = "number"
isObjectValue(value) == value.k \in {"object", "array"}

\* value?.name
Get(value, name) ==
    IF value.k = "object" /\ name \in DOMAIN value.v THEN value.v[name] ELSE Undefined

\* { ...base, ...spread }
Spread(base, spread) ==
    [name \in DOMAIN base \cup DOMAIN spread |->
        IF name \in DOMAIN spread THEN spread[name] ELSE base[name]]

\* HttpStatus.INTERNAL_SERVER_ERROR
INTERNAL_SERVER_ERROR == 500

\* the extends clauses
Superclass(cls) ==
    CASE cls = "InternalServerErrorException" -> "HttpException"
      [] cls = "HttpException" -> "IntrinsicException"
      [] cls = "TestIntrinsicException" -> "IntrinsicException"
      [] cls = "IntrinsicException" -> "Error"
      [] OTHER -> "Object"

RECURSIVE Extends(_, _)
Extends(cls, ancestor) ==
    \/ cls = ancestor
    \/ cls # "Object" /\ Extends(Superclass(cls), ancestor)

\* value instanceof cls
InstanceOf(value, cls) == value.k = "error" /\ Extends(value.cls, cls)

\* constructor.name.match(/[A-Z][a-z]+|[0-9]+/g)
NameWords(cls) ==
    CASE cls = "InternalServerErrorException" -> <<"Internal", "Server", "Error", "Exception">>
      [] cls = "HttpException" -> <<"Http", "Exception">>
      [] OTHER -> <<cls>>

RECURSIVE Join(_)
\* words.join(" ")
Join(words) ==
    IF Len(words) = 1 THEN words[1] ELSE words[1] \o " " \o Join(Tail(words))

\* new Error(message) and the classes that add nothing to it
ErrorObject(cls, message) ==
    [k |-> "error", cls |-> cls, message |-> message, name |-> "Error",
     response |-> Undefined, status |-> Undefined, cause |-> Undefined]

\* HttpException.createBody(arg0, arg1, statusCode)
createBody(arg0, arg1, statusCode) ==
    IF Falsy(arg0)
    THEN Obj([message |-> arg1, statusCode |-> Num(statusCode)])
    ELSE IF isString(arg0) \/ arg0.k = "array" \/ isNumber(arg0)
    THEN Obj([message |-> arg0, error |-> arg1, statusCode |-> Num(statusCode)])
    ELSE arg0

\* HttpException.extractDescriptionAndOptionsFrom(descriptionOrOptions)
extractDescriptionAndOptionsFrom(descriptionOrOptions) ==
    [description |-> IF isString(descriptionOrOptions) THEN descriptionOrOptions
                     ELSE Get(descriptionOrOptions, "description"),
     httpExceptionOptions |-> IF isString(descriptionOrOptions) THEN Obj(NoFields)
                              ELSE descriptionOrOptions]

\* HttpException.initMessage: the message the constructor leaves
initMessage(cls, response) ==
    IF isString(response) THEN response
    ELSE IF isObjectValue(response) /\ isString(Get(response, "message"))
    THEN Get(response, "message")
    ELSE Str(Join(NameWords(cls)))

\* HttpException.initCause
initCause(options) ==
    IF ~Falsy(Get(options, "cause")) THEN Get(options, "cause") ELSE Undefined

\* new HttpException(response, status, options), cls being the class constructed
HttpException(cls, response, status, options) ==
    [k |-> "error", cls |-> cls, message |-> initMessage(cls, response), name |-> cls,
     response |-> response, status |-> status, cause |-> initCause(options)]

\* the value of a parameter with a default
Defaulted(value, default) == IF value = Undefined THEN default ELSE value

\* new InternalServerErrorException(objectOrError, descriptionOrOptions)
InternalServerErrorException(objectOrError, descriptionOrOptions) ==
    LET extracted == extractDescriptionAndOptionsFrom(
                        Defaulted(descriptionOrOptions, Str("Internal Server Error")))
    IN HttpException("InternalServerErrorException",
                     createBody(objectOrError, extracted.description, INTERNAL_SERVER_ERROR),
                     Num(INTERNAL_SERVER_ERROR), extracted.httpExceptionOptions)

\* exception.getStatus(), exception.getResponse()
getStatus(e) == e.status
getResponse(e) == e.response

\* ExternalExceptionFilter.logError: the Logger.error call it makes
logError(e, status) ==
    [status |-> status,
     message |-> IF InstanceOf(e, "Error") THEN e.message ELSE e,
     stack |-> InstanceOf(e, "Error")]

\* ExternalExceptionFilter.handleHttpException
handleHttpException(e, url) ==
    [logs |-> <<logError(e, getStatus(e))>>,
     sent |-> [k |-> "json", status |-> getStatus(e),
               body |-> Spread([statusCode |-> getStatus(e), timestamp |-> Str("now"),
                                path |-> Str(url)],
                               IF isString(getResponse(e))
                               THEN [message |-> getResponse(e)]
                               ELSE IF getResponse(e).k = "object" THEN getResponse(e).v
                               ELSE NoFields)]]

\* ExternalExceptionFilter.handleUnknownException
handleUnknownException(e, url, development) ==
    [logs |-> IF InstanceOf(e, "Error") /\ ~InstanceOf(e, "IntrinsicException")
              THEN <<logError(e, Num(INTERNAL_SERVER_ERROR))>>
              ELSE <<>>,
     sent |-> [k |-> "json", status |-> Num(INTERNAL_SERVER_ERROR),
               body |-> Spread([statusCode |-> Num(INTERNAL_SERVER_ERROR),
                                message |-> Str("Internal server error"),
                                timestamp |-> Str("now"), path |-> Str(url)],
                               IF development
                               THEN [error |-> IF InstanceOf(e, "Error") THEN e.message ELSE e,
                                     stack |-> IF InstanceOf(e, "Error") THEN Str("stack")
                                               ELSE Undefined]
                               ELSE NoFields)]]

\* ExternalExceptionFilter.catch on a host whose switchToHttp gives a context
catch(e, url, development) ==
    IF InstanceOf(e, "HttpException")
    THEN handleHttpException(e, url)
    ELSE handleUnknownException(e, url, development)

\* the arguments the exception constructors are called with
ErrorObjects ==
    {Obj([message |-> Str("Custom error message"), error |-> Str("Custom error"),
          statusCode |-> Num(500)]),
     Obj([error |-> Str("Custom error"), statusCode |-> Num(500)]),
     Obj([message |-> Num(7)])}
ObjectOrErrors ==
    {Undefined, Null, Str(""), Str("Custom error message"), Num(0), Num(7),
     Arr(<<Str("a")>>)} \cup ErrorObjects
DescriptionOrOptions ==
    {Undefined, Str("Override message"), Obj([description |-> Str("Described")]),
     Obj([cause |-> Str("Cause")])}

\* the statements that throw: `throw new cls(...params)`, or `throw params[1]` when cls is ""
ThrowSites ==
    {[cls |-> "InternalServerErrorException", params |-> <<o, d>>] :
        o \in ObjectOrErrors, d \in DescriptionOrOptions}
    \cup {[cls |-> "HttpException", params |-> <<r, Num(403)>>] :
            r \in {Str("Forbidden"), Obj([message |-> Str("Forbidden")]), Obj(NoFields)}}
    \cup {[cls |-> "Error", params |-> <<Str("boom")>>],
          [cls |-> "IntrinsicException", params |-> <<>>],
          [cls |-> "TestIntrinsicException", params |-> <<>>],
          [cls |-> "", params |-> <<Str("oops")>>],
          [cls |-> "", params |-> <<Obj([message |-> Str("not an Error")])>>]}

\* the value the statement throws
ThrownBy(site) ==
    CASE site.cls = "InternalServerErrorException" ->
           InternalServerErrorException(site.params[1], site.params[2])
      [] site.cls = "HttpException" ->
           HttpException("HttpException", site.params[1], site.params[2], Undefined)
      [] site.cls = "Error" -> ErrorObject("Error", site.params[1])
      [] site.cls \in {"IntrinsicException", "TestIntrinsicException"} ->
           ErrorObject(site.cls, Str(""))
      [] OTHER -> site.params[1]

\* a program that is about to run one throw statement
ExceptionInit ==
    /\ revision = 1
    /\ ModuleProviders = <<>>
    /\ GlobalProviders = {}
    /\ providerDefinitions = <<>>
    /\ providerCollector = TRUE
    /\ providers = <<>>
    /\ meta = [m \in Modules \cup Classes |-> NoMetadata]
    /\ promises = <<>>
    /\ tasks = <<>>
    /\ inflight = {}
    /\ calls = <<>>
    /\ nextId = 0
    /\ invocations = {}
    /\ errors = {}
    /\ usage = "exceptions"
    /\ appPc = "new"
    /\ ctlIndex = 1
    /\ useFilters = <<>>
    /\ exceptionFilterManager = FALSE
    /\ exceptionFilters = <<>>
    /\ globalExceptionFilters = <<>>
    /\ filterPc = [pc |-> "new", i |-> 1]
    /\ handled = {}
    /\ args \in ThrowSites
    /\ exception = Undefined
    /\ logged = <<>>
    /\ outcome = Undefined
    /\ NoMiddleware

\* the throw statement runs
NewException ==
    /\ usage = "exceptions"
    /\ exception = Undefined
    /\ exception' = ThrownBy(args)
    /\ UNCHANGED <<args, logged, outcome>>
    /\ UNCHANGED middlewareVars
    /\ UNCHANGED <<useFilters, exceptionFilterManager, exceptionFilters,
                   globalExceptionFilters, filterPc, handled>>
    /\ UNCHANGED <<ModuleProviders, GlobalProviders, providerDefinitions, providerCollector,
                   providers, meta, promises, tasks, inflight, calls, nextId,
                   invocations, errors, usage, appPc, ctlIndex, revision>>

\* what catch(exception, host) does: with a host whose switchToHttp returns nothing,
\* ctx.getResponse() throws a TypeError before anything is logged or sent
Caught(result, hasContext) ==
    /\ logged' = IF hasContext THEN logged \o result.logs ELSE logged
    /\ outcome' = IF hasContext THEN result.sent ELSE [k |-> "threw", v |-> "TypeError"]

\* the route's catch block hands the exception to the ExternalExceptionFilter
Catch(hasContext, development) ==
    /\ usage = "exceptions"
    /\ exception # Undefined
    /\ outcome = Undefined
    /\ Caught(catch(exception, "/", development), hasContext)
    /\ UNCHANGED <<args, exception>>
    /\ UNCHANGED middlewareVars
    /\ UNCHANGED <<useFilters, exceptionFilterManager, exceptionFilters,
                   globalExceptionFilters, filterPc, handled>>
    /\ UNCHANGED <<ModuleProviders, GlobalProviders, providerDefinitions, providerCollector,
                   providers, meta, promises, tasks, inflight, calls, nextId,
                   invocations, errors, usage, appPc, ctlIndex, revision>>

ExceptionNext ==
    \/ NewException
    \/ \E hasContext, development \in BOOLEAN : Catch(hasContext, development)

ExceptionSpec == ExceptionInit /\ [][ExceptionNext]_vars

(***************************************************************************)
(* MiddlewareManager: apply, exclude, forRoutes and the handlers they       *)
(* install in the Express application.  A path, a url and a map key are     *)
(* sequences of tokens: "/", ":", "*", "?" and names.                       *)
(***************************************************************************)
MaxRoutes == 2      \* handlers installed in the application, and routes excluded

\* RequestMethod.ALL, and the RequestMethod members of HTTP_METHOD_MAP the requests use
ALL == "ALL"

HTTP_METHOD_MAP == [method \in {"GET", "POST"} |-> method]

\* what apply() is called with: classes with a use method, an instance made by the
\* caller, and a function (req, res, next)
LoggerMiddleware == [k |-> "class", name |-> "LoggerMiddleware"]

AuthMiddleware == [k |-> "class", name |-> "AuthMiddleware"]

loggerInstance == [k |-> "instance", name |-> "LoggerMiddleware"]

functionMiddleware == [k |-> "function", name |-> "functionMiddleware"]

MiddlewareLists ==
    {<<LoggerMiddleware>>, <<loggerInstance>>, <<functionMiddleware>>,
     <<LoggerMiddleware, AuthMiddleware>>}

\* what forRoutes() and exclude() are called with: a string, an object with a path and
\* possibly a method, or a controller class
\* a route object without a method property
NoMethod == "undefined"

StringRoute(path) == [k |-> "string", path |-> path, method |-> NoMethod, name |-> ""]

ObjectRoute(path, method) == [k |-> "object", path |-> path, method |-> method, name |-> ""]

ClassRoute(name) == [k |-> "class", path |-> <<>>, method |-> NoMethod, name |-> name]

Routes ==
    {StringRoute(<<"/", "a">>), StringRoute(<<"a", "/", "*">>),
     ObjectRoute(<<"a">>, "GET"), ObjectRoute(<<"/", "a", "/", ":", "id">>, NoMethod),
     ClassRoute("AppController")}

RouteLists ==
    {<<route>> : route \in Routes}
    \cup {<<ObjectRoute(<<"a">>, "GET"), ObjectRoute(<<"a">>, "POST")>>}

\* the "prefix" metadata @Controller("a") leaves on the class
prefix(name) == IF name = "AppController" THEN <<"a">> ELSE <<>>

Requests ==
    {[method |-> method, url |-> url] :
        method \in {"GET", "POST"},
        url \in {<<"/", "a">>, <<"/", "a", "/", "b">>, <<"/", "a", "?", "q">>, <<"/", "b">>}}

normalizeRouteInfo(route) ==
    LET routePath == CASE route.k = "string" -> route.path
                       [] route.k = "object" -> route.path
                       [] OTHER -> prefix(route.name)
        routeMethod == IF route.k = "object" /\ route.method # NoMethod
                       THEN route.method ELSE ALL
    IN  [routePath |-> IF routePath # <<>> /\ Head(routePath) = "/"
                       THEN routePath ELSE <<"/">> \o routePath,
         routeMethod |-> routeMethod]

RECURSIVE normalizeExpressPath(_)
normalizeExpressPath(routePath) ==
    IF routePath = <<>> THEN <<>>
    ELSE IF Head(routePath) = "*" THEN <<":", "param">> \o normalizeExpressPath(Tail(routePath))
    ELSE <<Head(routePath)>> \o normalizeExpressPath(Tail(routePath))

\* the pieces of a regular expression
Lit(c) == [re |-> "lit", c |-> c]

NotSlashPlus == [re |-> "[^/]+", c |-> ""]

AnyStar == [re |-> ".*", c |-> ""]

RECURSIVE getRegexPattern(_)
getRegexPattern(pattern) ==
    IF pattern = <<>> THEN <<>>
    ELSE <<CASE Head(pattern) = "*" -> AnyStar
             [] Head(pattern) = ":" -> NotSlashPlus
             [] OTHER -> Lit(Head(pattern))>> \o getRegexPattern(Tail(pattern))

\* new RegExp(`^${regexPattern}$`).test(str)
RECURSIVE RegexTest(_, _)
RegexTest(regex, str) ==
    IF regex = <<>> THEN str = <<>>
    ELSE CASE Head(regex).re = "lit" ->
                /\ str # <<>>
                /\ Head(str) = Head(regex).c
                /\ RegexTest(Tail(regex), Tail(str))
           [] Head(regex).re = "[^/]+" ->
                /\ str # <<>>
                /\ Head(str) # "/"
                /\ (RegexTest(Tail(regex), Tail(str)) \/ RegexTest(regex, Tail(str)))
           [] OTHER ->
                \/ RegexTest(Tail(regex), str)
                \/ (str # <<>> /\ RegexTest(regex, Tail(str)))

matchPath(requestPath, pattern) == RegexTest(getRegexPattern(pattern), requestPath)

toString(method) == <<method>>

getRouteKey(path, method) == toString(method) \o <<":">> \o path

\* key.split(":")
RECURSIVE split(_)
split(key) ==
    IF \A i \in 1..Len(key) : key[i] # ":" THEN <<key>>
    ELSE LET i == CHOOSE i \in 1..Len(key) : key[i] = ":" /\ \A j \in 1..(i - 1) : key[j] # ":"
         IN  <<SubSeq(key, 1, i - 1)>> \o split(SubSeq(key, i + 1, Len(key)))

isExclude(excluded, req) ==
    LET originalUrl == req.url
        requestMethod == IF req.method \in DOMAIN HTTP_METHOD_MAP
                         THEN HTTP_METHOD_MAP[req.method] ELSE ALL
        fullPathKey == getRouteKey(originalUrl, requestMethod)
    IN  \/ fullPathKey \in DOMAIN excluded
        \/ \E key \in DOMAIN excluded :
              LET excludedMethod == split(key)[1]
                  excludedPath == split(key)[2]
                  normalizedExcludedPath == normalizeExpressPath(excludedPath)
                  normalizedRequestPath == normalizeExpressPath(originalUrl)
                  methodMatches == \/ excludedMethod = toString(ALL)
                                   \/ excludedMethod = toString(requestMethod)
                  pathMatches == matchPath(normalizedRequestPath, normalizedExcludedPath)
              IN  methodMatches /\ pathMatches

getHttpMethod(method) ==
    CASE method = "GET" -> "get"
      [] method = "POST" -> "post"
      [] OTHER -> "all"

\* middlewares.set(key, instance) on the map kept as a list of entries
MapSet(map, cls, instance) ==
    IF \E i \in 1..Len(map) : map[i].cls = cls
    THEN [i \in 1..Len(map) |->
            IF map[i].cls = cls THEN [cls |-> cls, instance |-> instance] ELSE map[i]]
    ELSE Append(map, [cls |-> cls, instance |-> instance])

\* a handler installed with app.use(fn), app.use(path, fn) or app[method](path, fn)
Layer(method, path, handler) == [method |-> method, path |-> path, handler |-> handler]

AnyPath == <<>>

\* apply(...middleware): the instance the manager makes of a class stands for the class
RECURSIVE applyAll(_, _)
applyAll(s, middleware) ==
    IF middleware = <<>> THEN s
    ELSE LET m == Head(middleware)
             next ==
                CASE m.k = "function" ->
                       [s EXCEPT !.app = Append(@, Layer("use", AnyPath,
                                                   [k |-> "function", middleware |-> m,
                                                    expressPath |-> <<>>, routeMethod |-> ALL]))]
                  [] OTHER -> [s EXCEPT !.middlewares = MapSet(@, m.name, m)]
         IN  applyAll(next, Tail(middleware))

\* the handler forRoutes installs for one route and one middleware
RouteLayer(route, middlewareInstance) ==
    IF route.k = "class"
    THEN Layer("use", AnyPath,
               [k |-> "any", middleware |-> middlewareInstance,
                expressPath |-> <<>>, routeMethod |-> ALL])
    ELSE LET info == normalizeRouteInfo(route)
             expressPath == normalizeExpressPath(info.routePath)
         IN  Layer(IF info.routeMethod = ALL THEN "use" ELSE getHttpMethod(info.routeMethod),
                   expressPath,
                   [k |-> "route", middleware |-> middlewareInstance,
                    expressPath |-> expressPath, routeMethod |-> info.routeMethod])

RECURSIVE forRoutesAll(_, _, _)
forRoutesAll(stack, registered, routes) ==
    IF routes = <<>> THEN stack
    ELSE forRoutesAll(
            stack \o [i \in 1..Len(registered) |-> RouteLayer(Head(routes), registered[i].instance)],
            registered, Tail(routes))

RECURSIVE excludeAll(_, _)
excludeAll(excluded, routes) ==
    IF routes = <<>> THEN excluded
    ELSE LET info == normalizeRouteInfo(Head(routes))
             key == getRouteKey(info.routePath, info.routeMethod)
         IN  excludeAll((key :> info) @@ excluded, Tail(routes))

\* the path of a url: what stands before the query string
pathname(url) ==
    IF \A i \in 1..Len(url) : url[i] # "?" THEN url
    ELSE SubSeq(url, 1, (CHOOSE i \in 1..Len(url) :
                            url[i] = "?" /\ \A j \in 1..(i - 1) : url[j] # "?") - 1)

\* how Express reads the path of a layer: ":name" stands for one segment
RECURSIVE pathToRegexp(_)
pathToRegexp(path) ==
    IF path = <<>> THEN <<>>
    ELSE IF Head(path) = ":" /\ Len(path) >= 2
         THEN <<NotSlashPlus>> \o pathToRegexp(Tail(Tail(path)))
    ELSE <<Lit(Head(path))>> \o pathToRegexp(Tail(path))

\* Express hands the request to the layer: app.use layers take every path that begins
\* with theirs, app.get and app.post layers the requests of their method on their path
LayerMatches(layer, req) ==
    LET path == pathname(req.url)
    IN  CASE layer.method = "use" /\ layer.path = AnyPath -> TRUE
          [] layer.method = "use" ->
               \E n \in 0..Len(path) :
                  /\ RegexTest(pathToRegexp(layer.path), SubSeq(path, 1, n))
                  /\ n = Len(path) \/ path[n + 1] = "/"
          [] OTHER ->
               /\ layer.method \in {"all", getHttpMethod(req.method)}
               /\ RegexTest(pathToRegexp(layer.path), path)

\* the handler reaches the call of the middleware instead of returning next()
CallsMiddleware(handler, excluded, req) ==
    CASE handler.k = "function" -> TRUE
      [] handler.k = "any" -> ~isExclude(excluded, req)
      [] OTHER ->
           /\ matchPath(req.url, handler.expressPath)
           /\ \/ handler.routeMethod = ALL
              \/ /\ req.method \in DOMAIN HTTP_METHOD_MAP
                 /\ HTTP_METHOD_MAP[req.method] = handler.routeMethod
           /\ ~isExclude(excluded, req)

\* the middlewares run for a request, every one of them calling next()
Dispatch(stack, excluded, req) ==
    LET ran == SelectSeq(stack, LAMBDA layer :
                  LayerMatches(layer, req) /\ CallsMiddleware(layer.handler, excluded, req))
    IN  [i \in 1..Len(ran) |-> ran[i].handler.middleware]

MiddlewareState == [app |-> app, middlewares |-> middlewares]

\* configure(consumer) runs before the application listens
Apply(middleware) ==
    /\ usage = "middleware"
    /\ request = Undefined
    /\ LET s == applyAll(MiddlewareState, middleware)
       IN  /\ Len(s.app) <= MaxRoutes
           /\ app' = s.app
           /\ middlewares' = s.middlewares
    /\ UNCHANGED <<excludeMiddlewares, request, executed>>
    /\ UNCHANGED <<useFilters, exceptionFilterManager, exceptionFilters,
                   globalExceptionFilters, filterPc, handled, exceptionVars>>
    /\ UNCHANGED <<ModuleProviders, GlobalProviders, providerDefinitions, providerCollector,
                   providers, meta, promises, tasks, inflight, calls, nextId,
                   invocations, errors, usage, appPc, ctlIndex, revision>>

ForRoutes(routes) ==
    /\ usage = "middleware"
    /\ request = Undefined
    /\ Len(forRoutesAll(app, middlewares, routes)) <= MaxRoutes
    /\ app' = forRoutesAll(app, middlewares, routes)
    /\ middlewares' = <<>>
    /\ UNCHANGED <<excludeMiddlewares, request, executed>>
    /\ UNCHANGED <<useFilters, exceptionFilterManager, exceptionFilters,
                   globalExceptionFilters, filterPc, handled, exceptionVars>>
    /\ UNCHANGED <<ModuleProviders, GlobalProviders, providerDefinitions, providerCollector,
                   providers, meta, promises, tasks, inflight, calls, nextId,
                   invocations, errors, usage, appPc, ctlIndex, revision>>

Exclude(routes) ==
    /\ usage = "middleware"
    /\ request = Undefined
    /\ Cardinality(DOMAIN excludeAll(excludeMiddlewares, routes)) <= MaxRoutes
    /\ excludeMiddlewares' = excludeAll(excludeMiddlewares, routes)
    /\ UNCHANGED <<app, middlewares, request, executed>>
    /\ UNCHANGED <<useFilters, exceptionFilterManager, exceptionFilters,
                   globalExceptionFilters, filterPc, handled, exceptionVars>>
    /\ UNCHANGED <<ModuleProviders, GlobalProviders, providerDefinitions, providerCollector,
                   providers, meta, promises, tasks, inflight, calls, nextId,
                   invocations, errors, usage, appPc, ctlIndex, revision>>

\* the application serves a request
Request(req) ==
    /\ usage = "middleware"
    /\ request' = req
    /\ executed' = Dispatch(app, excludeMiddlewares, req)
    /\ UNCHANGED <<app, middlewares, excludeMiddlewares>>
    /\ UNCHANGED <<useFilters, exceptionFilterManager, exceptionFilters,
                   globalExceptionFilters, filterPc, handled, exceptionVars>>
    /\ UNCHANGED <<ModuleProviders, GlobalProviders, providerDefinitions, providerCollector,
                   providers, meta, promises, tasks, inflight, calls, nextId,
                   invocations, errors, usage, appPc, ctlIndex, revision>>

\* a MiddlewareManager right after construction
MiddlewareInit ==
    /\ revision = 1
    /\ ModuleProviders = <<>>
    /\ GlobalProviders = {}
    /\ providerDefinitions = <<>>
    /\ providerCollector = TRUE
    /\ providers = <<>>
    /\ meta = [m \in Modules \cup Classes |-> NoMetadata]
    /\ promises = <<>>
    /\ tasks = <<>>
    /\ inflight = {}
    /\ calls = <<>>
    /\ nextId = 0
    /\ invocations = {}
    /\ errors = {}
    /\ usage = "middleware"
    /\ appPc = "new"
    /\ ctlIndex = 1
    /\ NoFilters

MiddlewareNext ==
    \/ \E middleware \in MiddlewareLists : Apply(middleware)
    \/ \E routes \in RouteLists : ForRoutes(routes)
    \/ \E routes \in RouteLists : Exclude(routes)
    \/ \E req \in Requests : Request(req)

MiddlewareSpec == MiddlewareInit /\ [][MiddlewareNext]_vars

(***************************************************************************)
(* Vocabulary of the properties.                                            *)
(***************************************************************************)
\* what resolveProvider(token) returns in the current state
Resolve(token) == resolveProvider(State, token, MaxDepth).v

\* the module class an imports entry stands for
ImportedModule(entity) ==
    CASE entity.k = "class" -> entity.name
      [] entity.k = "spec" -> entity.cfg.module
      [] OTHER -> promises[entity.name].cfg.module

Imports(m) == {ImportedModule(meta[m].imports[i]) : i \in 1..Len(meta[m].imports)}
ProviderDecls(m) == {meta[m].providers[i] : i \in 1..Len(meta[m].providers)}
DeclaredTokens(m) == {p.provide : p \in ProviderDecls(m)}
Exports(m) == {meta[m].exports[i] : i \in 1..Len(meta[m].exports)}
Controllers(m) == {meta[m].controllers[i] : i \in 1..Len(meta[m].controllers)}

\* registerModule(Root) has been called, and every call made so far has returned
RootCalled == \E t \in 1..Len(tasks) : tasks[t].arg = "Root"
AllReturned == RootCalled /\ \A t \in 1..Len(tasks) : tasks[t].status = "done"
Quiescent == AllReturned /\ inflight = {}

\* the first declaration of a token in a providers list
FirstFor(list, token) == SelectSeq(list, LAMBDA p : p.provide = token)[1]

\* how many times registerModule has been handed module m
TimesReached(m) ==
    Cardinality({t \in 1..Len(tasks) : tasks[t].arg = m})
    + Cardinality({i \in DOMAIN ModuleProviders \cap Modules : m \in Imports(i)})

(***************************************************************************)
(* C1: a static module handed to registerModule more than once has one      *)
(* entry in the provider-token map, and each of its providers has had its   *)
(* constructor or factory called exactly once.                              *)
(***************************************************************************)
C1_RegisteredOnceInstantiatedOnce ==
    \A m \in {"Leaf"} :
       (Quiescent /\ TimesReached(m) >= 2) =>
          /\ m \in DOMAIN ModuleProviders
          /\ \A p \in ProviderDecls(m) :
                (/\ p.kind \in {"class", "useClass", "useFactory"}
                 /\ \A q \in ProviderDecls(m) : q.provide = p.provide => q = p)
                => CallsOf(calls, p) = 1

(***************************************************************************)
(* C2: once registerModule(root) has returned, every token an imported      *)
(* module declares and exports is in the provider-token set of each module  *)
(* that imports it.                                                         *)
(***************************************************************************)
C2_ExportsReachEveryImporter ==
    AllReturned =>
       \A m \in DOMAIN ModuleProviders \cap Modules :
          \A i \in Imports(m) :
             \A token \in Exports(i) \cap DeclaredTokens(i) :
                token \in ModuleProviders[m]

(***************************************************************************)
(* C3: with providers [{T, useValue a}, {T, useValue b}] and exports [T],   *)
(* resolveProvider(T) returns b once an importing module is registered.     *)
(***************************************************************************)
C3_LaterDeclarationWins ==
    (/\ AllReturned
     /\ meta["Leaf"].providers = <<UseValue("T", "a"), UseValue("T", "b")>>
     /\ "T" \in Exports("Leaf")
     /\ "Leaf" \in Imports("Root")
     /\ "T" \notin DeclaredTokens("Root"))
    => Resolve("T") = Str("b")

(***************************************************************************)
(* C4: a module's own provider of T takes precedence over the T exported    *)
(* by a module it imports.                                                  *)
(***************************************************************************)
C4_OwnProviderShadowsImport ==
    (/\ AllReturned
     /\ "Leaf" \in Imports("Root")
     /\ "T" \in Exports("Leaf") \cap DeclaredTokens("Leaf")
     /\ "T" \in DeclaredTokens("Root"))
    => Resolve("T") = FirstFor(meta["Root"].providers, "T").useValue

(***************************************************************************)
(* C5: a constructor or factory is never handed undefined or the raw token  *)
(* string for a dependency that a provider of its own module or of an       *)
(* imported module declares.                                                *)
(***************************************************************************)
DependenciesOf(provider) ==
    IF provider.kind = "useFactory" THEN provider.inject
    ELSE DependencyTokens(provider.useClass)

\* the modules that declare the provider, or list its class as a controller
HomeModules(provider) ==
    {m \in Modules : provider \in ProviderDecls(m)
                     \/ (provider.kind = "class" /\ provider.provide \in Controllers(m))}

VisibleTokens(m) ==
    DeclaredTokens(m) \cup UNION {DeclaredTokens(i) : i \in Imports(m)}

C5_DependenciesResolvedBeforeUse ==
    \A inv \in invocations :
       \A i \in 1..Len(inv.args) :
          LET token == DependenciesOf(inv.provider)[i]
          IN (\E m \in HomeModules(inv.provider) : token \in VisibleTokens(m))
             => inv.args[i] \notin {Undefined, Str(token)}

(***************************************************************************)
(* C6: an Instance Cache entry, once set, keeps its value.                  *)
(***************************************************************************)
C6_CacheEntryNeverChanges ==
    [][\A token \in DOMAIN providers :
          token \in DOMAIN providers' /\ providers'[token] = providers[token]]_vars

(***************************************************************************)
(* C7: during NestApplication.init no controller is constructed before      *)
(* registerModule(root) has run to completion, awaited dynamic imports      *)
(* included.                                                                *)
(***************************************************************************)
ControllerConstructed ==
    \E c \in Controllers("Root") : CallsOf(calls, ClassProvider(c)) > 0

C8_ControllerFailureAbortsInit ==
    CallsOf(calls, ClassProvider("BadCtl")) > 0 =>
       /\ CallsOf(calls, ClassProvider("Ctl")) = 0
       /\ appPc # "done"
       /\ ctlIndex > 1 => [site |-> "initializeControllers", token |-> "BadCtl"] \in errors

(***************************************************************************)
(* C9: a class provider whose constructor throws is cached as null, the     *)
(* registration goes on, later resolutions return null without another      *)
(* constructor call, and its siblings resolve to their values.              *)
(***************************************************************************)
\* the declarations of providers (not controllers) whose constructor has thrown
FailedProviders ==
    {p \in DOMAIN calls : p.kind \in {"class", "useClass"}
                           /\ p.useClass \in ThrowingClasses
                           /\ \E m \in Modules : p \in ProviderDecls(m)}

C9_FailedProviderIsolated ==
    \A p \in FailedProviders :
       LET again == resolveProvider(State, p.provide, MaxDepth)
       IN /\ p.provide \in DOMAIN providers
          /\ providers[p.provide] = Null
          /\ calls[p] = 1
          /\ again.v = Null
          /\ again.s.calls = calls
          /\ \A t \in 1..Len(tasks) : tasks[t].status # "threw"
          /\ \A m \in Modules :
                (p \in ProviderDecls(m) /\ AllReturned /\ m \in DOMAIN ModuleProviders) =>
                   \A q \in ProviderDecls(m) :
                      /\ (q.kind = "useValue"
                          /\ q = FirstFor(meta[m].providers, q.provide)
                          /\ \A o \in Modules \ {m} : q.provide \notin DeclaredTokens(o))
                            => Resolve(q.provide) = q.useValue
                      /\ (q.kind = "class" /\ q.useClass \notin ThrowingClasses)
                            => Resolve(q.provide).k = "instance"

\* a constructor threw, and a sibling value provider of the same module resolved
C9_Witness ==
    /\ AllReturned
    /\ ClassProvider("Bad") \in FailedProviders
    /\ meta["Leaf"].providers = <<ClassProvider("Bad"), UseValue("T", "a")>>
    /\ "Leaf" \in DOMAIN ModuleProviders
    /\ Resolve("T") = Str("a")

(***************************************************************************)
(* C10: registering a module that imports a dynamic module spec carrying    *)
(* {provide: X, useValue: 1} makes resolveProvider(X) return 1, whether the *)
(* spec is given directly or as the pending value DatabaseModule.forRoot    *)
(* returns.                                                                 *)
(***************************************************************************)
ImportsDynamicModule == \E i \in 1..Len(meta["Root"].imports) :
                           isDynamicModule(meta["Root"].imports[i])

C10_DynamicImportBecomesResolvable ==
    (RootCalled /\ ImportsDynamicModule) ~> (AllReturned /\ Resolve("X") = Str("1"))

(***************************************************************************)
(* C11: once registration has returned, every token a global module         *)
(* declares is in the Global Provider Set and resolveProvider returns its   *)
(* declared value, also for a sibling module that does not import it.      *)
(***************************************************************************)
\* the only declaration of its token in the whole graph, so its value is the declared one
SoleDeclaration(m, p) ==
    /\ p = FirstFor(meta[m].providers, p.provide)
    /\ \A o \in Modules \ {m} : p.provide \notin DeclaredTokens(o)

C11_GlobalProvidersResolvable ==
    \A g \in Modules :
       (AllReturned /\ meta[g].global /\ g \in DOMAIN ModuleProviders) =>
          \A p \in ProviderDecls(g) :
             /\ p.provide \in GlobalProviders
             /\ (p.kind = "useValue" /\ SoleDeclaration(g, p))
                   => Resolve(p.provide) = p.useValue
             /\ (p.kind = "class" /\ p.useClass \notin ThrowingClasses)
                   => Resolve(p.provide).k = "instance"
             /\ (p.kind = "useFactory" /\ ~p.async /\ SoleDeclaration(g, p))
                   => Resolve(p.provide).k = "made"

\* a global Leaf is registered under A, and B, which does not import it, is registered too
C11_Witness ==
    /\ AllReturned
    /\ meta["Leaf"].global
    /\ "B" \in DOMAIN ModuleProviders
    /\ "Leaf" \notin Imports("B")
    /\ "T" \in GlobalProviders
    /\ "T" \notin ModuleProviders["B"]
    /\ meta["Leaf"].providers = <<UseValue("T", "a"), ClassProvider("SvcA")>>
    /\ Resolve("T") = Str("a")

(***************************************************************************)
(* C12: an exports entry X of a registered module M that no provider       *)
(* declaration carries creates no entry for X in any registry table: not   *)
(* in the Provider Definition Table, the Instance Cache, the               *)
(* provider-token map, any module's provider-token set or the Global       *)
(* Provider Set.                                                           *)
(***************************************************************************)
\* X appears in none of the registry's tables
InNoTable(X) ==
    /\ X \notin DOMAIN providerDefinitions
    /\ X \notin DOMAIN providers
    /\ X \notin DOMAIN ModuleProviders
    /\ \A m \in DOMAIN ModuleProviders : X \notin ModuleProviders[m]
    /\ X \notin GlobalProviders

C12_UndeclaredExportCreatesNothing ==
    \A M \in Modules :
       M \in DOMAIN ModuleProviders =>
          \A X \in Exports(M) :
             (\A o \in Modules : X \notin DeclaredTokens(o)) => InNoTable(X)

(***************************************************************************)
(* C13: once the declaring module has been registered, resolveProvider(T)  *)
(* returns exactly v for every declaration {provide: T, useValue: v} of    *)
(* the module, whether or not the module exports T.                        *)
(***************************************************************************)
C13_UseValueResolvesToItsValue ==
    \A m \in Modules :
       (AllReturned /\ m \in DOMAIN ModuleProviders) =>
          \A p \in ProviderDecls(m) :
             p.kind = "useValue" => Resolve(p.provide) = p.useValue

(***************************************************************************)
(* C14: a synchronous factory provider {provide: T, useFactory: f,         *)
(* inject: [A]} whose module binds A by a useValue provider resolves,      *)
(* after registration, to f called with A's value, whichever of the two    *)
(* declarations comes first in the providers list.                         *)
(***************************************************************************)
\* p is a synchronous factory of m with one injected token, q binds that token by value
FactoryOverValue(m, p, q) ==
    /\ p.kind = "useFactory" /\ ~p.async /\ Len(p.inject) = 1
    /\ q.kind = "useValue" /\ q.provide = p.inject[1]
    /\ SoleDeclaration(m, p) /\ SoleDeclaration(m, q)

C14_FactoryGetsInjectedValue ==
    \A m \in Modules :
       (AllReturned /\ m \in DOMAIN ModuleProviders) =>
          \A p, q \in ProviderDecls(m) :
             FactoryOverValue(m, p, q) =>
                /\ Resolve(p.provide).k = "made"
                /\ Resolve(p.provide).a = <<q.useValue>>

(***************************************************************************)
(* C15: an alias {provide: T, useExisting: U}, U being declared in the     *)
(* same module and resolving to u, resolves to that same u after           *)
(* registration, whichever of the two declarations comes first.            *)
(***************************************************************************)
\* p is an alias of m for the token that q, of the same module, declares
AliasOf(m, p, q) ==
    /\ p.kind = "useExisting" /\ q.provide = p.useExisting
    /\ SoleDeclaration(m, p) /\ SoleDeclaration(m, q)

C15_AliasResolvesToItsTarget ==
    \A m \in Modules :
       (Quiescent /\ m \in DOMAIN ModuleProviders) =>
          \A p, q \in ProviderDecls(m) :
             AliasOf(m, p, q) => Resolve(p.provide) = Resolve(q.provide)

(***************************************************************************)
(* C16: Leaf declares and exports T by value; Mid imports Leaf, exports T  *)
(* again and declares, without exporting it, a factory U over T; Root      *)
(* imports Mid and has a controller whose constructor injects U.  After    *)
(* init() the cached controller instance holds the factory's result for    *)
(* Leaf's value.                                                           *)
(***************************************************************************)
\* the three-layer graph Root -> A -> Leaf with a controller on Root
Layered ==
    /\ Imports("Root") = {"A"} /\ Imports("A") = {"Leaf"}
    /\ meta["Leaf"].providers = <<UseValue("T", "a")>> /\ meta["Leaf"].exports = <<"T">>
    /\ meta["A"].providers = <<UseFactory("U", <<"T">>)>> /\ meta["A"].exports = <<"T">>
    /\ meta["Root"].controllers = <<"CtlU">>

C16_ControllerHoldsFactoryResult ==
    (Layered /\ appPc = "done") =>
       /\ "CtlU" \in DOMAIN providers
       /\ providers["CtlU"].k = "instance"
       /\ Len(providers["CtlU"].a) = 1
       /\ providers["CtlU"].a[1].k = "made"
       /\ providers["CtlU"].a[1].a = <<Str("a")>>

(***************************************************************************)
(* C17: getProviderDependencies returns one value per reflected            *)
(* constructor parameter, in declaration order: the resolution of the      *)
(* @Inject token of that index when there is one, of the reflected type    *)
(* otherwise.  Pair has parameters [SvcA, Bad] and @Inject("X") on index   *)
(* 1: its arguments are resolved via SvcA and "X", never via Bad.          *)
(***************************************************************************)
\* resolveProvider(second) after resolveProvider(first), as map() calls them in turn
ResolvedNext(first, second) ==
    resolveProvider(resolveProvider(State, first, MaxDepth).s, second, MaxDepth).v

C17_InjectOverridesParameterType ==
    LET pair == getProviderDependencies(State, "Pair", MaxDepth)
        svcA == getProviderDependencies(State, "SvcA", MaxDepth)
        ctl == getProviderDependencies(State, "Ctl", MaxDepth)
    IN /\ pair.vals = <<Resolve("SvcA"), ResolvedNext("SvcA", "X")>>
       /\ [site |-> "resolveProvider", token |-> "Bad"] \notin pair.s.errors \ errors
       /\ svcA.vals = <<Resolve("T")>>
       /\ ctl.vals = <<Resolve("SvcA")>>
       /\ "Pair" \in DOMAIN providers =>
             /\ providers["Pair"].k = "instance"
             /\ Len(providers["Pair"].a) = 2
             /\ providers["Pair"].a[2] # Undefined

\* Pair has been constructed with an SvcA instance and the value bound to "X"
C17_Witness ==
    /\ "Pair" \in DOMAIN providers
    /\ providers["Pair"].a[1].k = "instance"
    /\ providers["Pair"].a[1].v = "SvcA"
    /\ providers["Pair"].a[2] = Str("o")

(***************************************************************************)
(* C18: resolveProvider on a token with no Instance Cache entry and no     *)
(* stored declaration returns undefined for a token that is not a string   *)
(* and the token itself for a string; it does not throw and adds no entry  *)
(* to the Instance Cache.                                                  *)
(***************************************************************************)
\* neither cached nor declared to the registry
Unknown(token) ==
    token \notin DOMAIN providers /\ token \notin DOMAIN providerDefinitions

C18_UnknownTokenResolution ==
    \A token \in StrTokens \cup Classes :
       Unknown(token) =>
          LET r == resolveProvider(State, token, MaxDepth)
          IN /\ r.v = IF token \in StrTokens THEN Str(token) ELSE Undefined
             /\ ~r.s.overflow
             /\ r.s.providers = providers

\* Ctl was constructed while its parameter type SvcA was unknown: it got undefined,
\* the failure was logged, and a string token nobody declares resolves to itself
C18_Witness ==
    /\ "Ctl" \in DOMAIN providers
    /\ providers["Ctl"].a = <<Undefined>>
    /\ [site |-> "resolveProvider", token |-> "SvcA"] \in errors
    /\ Unknown("META")
    /\ Resolve("META") = Str("META")

(***************************************************************************)
(* C19: on a registry with no collector attached, registerModule and       *)
(* registerDynamicModule throw the configuration error before changing     *)
(* any registry state: no module is marked registered and no token or      *)
(* declaration is recorded.                                                *)
(***************************************************************************)
C19_NoCollectorIsFatal ==
    ~providerCollector =>
       /\ \A t \in 1..Len(tasks) :
             /\ tasks[t].status = "threw"
             /\ tasks[t].error = "ProviderCollector not initialized"
       /\ ModuleProviders = <<>>
       /\ providerDefinitions = <<>>
       /\ GlobalProviders = {}

(***************************************************************************)
(* C20: a filter bound with @UseFilters on a handler method is applied     *)
(* only to exceptions raised by that method, and a filter bound on a       *)
(* controller only to that controller's handlers: its catch is never       *)
(* called for an exception raised by another method or controller.         *)
(***************************************************************************)
\* the handlers a binding on the target covers
Covers(origin, h) ==
    \/ origin = Everywhere
    \/ origin.method = "" /\ origin.controller = h.controller
    \/ origin = h

C20_FiltersStayInTheirScope ==
    \A call \in handled : Covers(call.filter.origin, call.handler)

(***************************************************************************)
(* C21: the default ExternalExceptionFilter.catch logs an error for an     *)
(* exception that is an Error but not an IntrinsicException, and logs      *)
(* nothing for an IntrinsicException (HttpException and the other          *)
(* subclasses included) or for a value that is not an Error.               *)
(***************************************************************************)
\* catch ran to its end on a host with an HTTP context
Answered == outcome # Undefined /\ outcome.k = "json"

C21_DefaultFilterLogsOnlyForeignErrors ==
    Answered =>
       (logged # <<>>
          <=> (InstanceOf(exception, "Error") /\ ~InstanceOf(exception, "IntrinsicException")))

(***************************************************************************)
(* C22: however InternalServerErrorException is constructed (no argument,  *)
(* a string, an error object, an error object and a description),          *)
(* getStatus() is 500 and message is the string argument if there is one,  *)
(* else the message field of the error object if it has one, else          *)
(* "Internal Server Error"; a description never replaces an error          *)
(* object's message.                                                       *)
(***************************************************************************)
\* the ways of constructing the claim lists
ListedWay(site) ==
    /\ site.cls = "InternalServerErrorException"
    /\ \/ site.params[1] = Undefined /\ site.params[2] = Undefined
       \/ isString(site.params[1]) /\ site.params[2] = Undefined
       \/ site.params[1] \in ErrorObjects
          /\ (site.params[2] = Undefined \/ isString(site.params[2]))

\* the message the claim promises
PromisedMessage(objectOrError) ==
    IF isString(objectOrError) THEN objectOrError
    ELSE IF objectOrError.k = "object" /\ "message" \in DOMAIN objectOrError.v
    THEN objectOrError.v["message"]
    ELSE Str("Internal Server Error")

C22_MessageOfInternalServerError ==
    (ListedWay(args) /\ exception # Undefined) =>
       /\ getStatus(exception) = Num(500)
       /\ exception.message = PromisedMessage(args.params[1])

(***************************************************************************)
(* C23: within one registerModule(M) call every module M imports is        *)
(* completely registered before any provider declaration of M is           *)
(* registered, and every provider declaration of M is registered before    *)
(* any export of M is propagated to the modules that import M.             *)
(***************************************************************************)
\* the registerModule calls in progress: task and depth of their frame
ActiveCalls ==
    {c \in (1..Len(tasks)) \X (1..MaxDepth) :
        /\ c[2] <= Len(tasks[c[1]].stack)
        /\ tasks[c[1]].stack[c[2]].fn = "registerModule"}

FrameOf(c) == tasks[c[1]].stack[c[2]]

\* the call has taken at least one entry of its exports loop
ExportsBegun(frame) == frame.pc = "exports" /\ frame.i > 1

\* the providers loop of the call has run: every declared token is in the module's own set
ProvidersRegistered(frame) ==
    /\ frame.arg.name \in DOMAIN ModuleProviders
    /\ \A i \in 1..Len(frame.provs) :
          frame.provs[i].provide \in ModuleProviders[frame.arg.name]

\* the imports loop is over and no call registering an imported module is still running
ImportsRegistered(frame) ==
    /\ frame.pc # "imports"
    /\ \A i \in 1..Len(frame.imps) :
          /\ ImportedModule(frame.imps[i]) \in DOMAIN ModuleProviders
          /\ \A c \in ActiveCalls : FrameOf(c).arg.name # ImportedModule(frame.imps[i])

C23_ImportsThenProvidersThenExports ==
    \A c \in ActiveCalls :
       /\ ExportsBegun(FrameOf(c)) => ProvidersRegistered(FrameOf(c))
       /\ (ExportsBegun(FrameOf(c)) \/ FrameOf(c).pc = "providers")
             => ImportsRegistered(FrameOf(c))

(***************************************************************************)
(* C24: while the promise an asynchronous useFactory returned for token T  *)
(* is pending, resolveProvider(T) returns undefined, for a string token as *)
(* for a class token; once it has settled, resolveProvider(T) returns the  *)
(* settled value.                                                          *)
(***************************************************************************)
\* p is the one declaration of its token, in module m and in the whole graph
OnlyDeclaration(m, p) ==
    /\ SoleDeclaration(m, p)
    /\ \A q \in ProviderDecls(m) : q.provide = p.provide => q = p

\* a promise returned by the factory of the token has not settled yet
Pending(token) == \E pr \in inflight : pr.token = token

C24_PendingFactoryResolvesUndefined ==
    \A m \in Modules :
       \A p \in ProviderDecls(m) :
          (p.kind = "useFactory" /\ p.async /\ OnlyDeclaration(m, p)) =>
             /\ (Pending(p.provide) /\ p.provide \notin DOMAIN providers)
                   => Resolve(p.provide) = Undefined
             /\ (~Pending(p.provide) /\ CallsOf(calls, p) > 0 /\ ~p.rejects)
                   => /\ Resolve(p.provide).k = "made"
                      /\ Resolve(p.provide).v = p.provide

(***************************************************************************)
(* C25 (as stated): when the constructors of two class providers depend on *)
(* each other, resolving them recurses without bound, and neither token    *)
(* ever gets an entry, resolved or failed, in the Instance Cache.          *)
(***************************************************************************)
CycleDeclared ==
    \E m \in Modules :
       /\ m \in DOMAIN ModuleProviders
       /\ ClassProvider("CycA") \in ProviderDecls(m)
       /\ ClassProvider("CycB") \in ProviderDecls(m)

GraphRegistered == ModulesOfTheGraph \subseteq DOMAIN ModuleProviders

\* call t is registerModule(root) and no earlier call was
RegistersRoot(t) ==
    /\ t <= Len(tasks)
    /\ tasks[t].arg = "Root"
    /\ \A u \in 1..(t - 1) : tasks[u].arg # "Root"

HasReturned(t) == t <= Len(tasks) /\ tasks[t].status = "done"

C26_RegisterModuleTerminates ==
    /\ [](\A t \in 1..MaxCalls :
             (providerCollector /\ RegistersRoot(t) /\ HasReturned(t)) => GraphRegistered)
    /\ \A t \in 1..MaxCalls :
          [](    (providerCollector /\ t <= Len(tasks) /\ tasks[t].arg = "Root")
              => <>(HasReturned(t) /\ GraphRegistered))

C26_ImportCycleRegistered ==
    /\ meta["A"].imports = <<ClassEntity("B")>>
    /\ meta["B"].imports = <<ClassEntity("A")>>
    /\ \E t \in 1..Len(tasks) : tasks[t].arg = "Root" /\ tasks[t].status = "done"
    /\ {"Root", "A", "B"} \subseteq DOMAIN ModuleProviders

(***************************************************************************)
(* C27: a token in the provider-token set of a module R is one R declares, *)
(* or one exported by a module L that R imports, or one exported by a      *)
(* module L further down whose every module on an import path from R to L  *)
(* lists the token, or the module it got it from, in its own exports: what *)
(* an intermediate module does not re-export does not reach R.             *)
(***************************************************************************)
RECURSIVE Relays(_, _, _, _)
\* m passes l's token on: it exports the token or the import it has it from
Relays(m, l, token, n) ==
    \E from \in Imports(m) :
       /\ token \in Exports(m) \/ from \in Exports(m)
       /\ from = l \/ (n > 0 /\ Relays(from, l, token, n - 1))

ReachesThroughExports(r, l, token) ==
    \/ l \in Imports(r)
    \/ \E m \in Imports(r) : Relays(m, l, token, Cardinality(Modules))

C27_OnlyReExportedTokensTravelUp ==
    \A r \in DOMAIN ModuleProviders : \A token \in ModuleProviders[r] :
       \/ token \in DeclaredTokens(r)
       \/ \E l \in Modules :
             /\ token \in Exports(l) \cap DeclaredTokens(l)
             /\ ReachesThroughExports(r, l, token)

(***************************************************************************)
(* C28: once the registration has returned, when a module M imports a      *)
(* module N and lists N in its exports, every registered module P that     *)
(* imports M has in its provider-token set every token that N declares and *)
(* exports.                                                                *)
(***************************************************************************)
C28_ExportedModuleReExportsItsTokens ==
    AllReturned =>
       \A m, n, p \in Modules :
          (/\ n \in Imports(m)
           /\ n \in Exports(m)
           /\ m \in Imports(p)
           /\ p \in DOMAIN ModuleProviders)
             => (Exports(n) \cap DeclaredTokens(n)) \subseteq ModuleProviders[p]

(***************************************************************************)
(* C29: once init() has completed, every controller class declared by a    *)
(* registered module, the root module or an imported one, has an entry in  *)
(* the Instance Cache.                                                     *)
(***************************************************************************)
C29_EveryControllerInitialized ==
    appPc = "done" =>
       \A m \in DOMAIN ModuleProviders : \A controller \in Controllers(m) :
          controller \in DOMAIN providers

(***************************************************************************)
(* C30: the factory function of an asynchronous useFactory declaration is  *)
(* called at most once, however many collectProviders and resolveProvider  *)
(* calls reach it while its promise is pending, and also when its token is *)
(* both declared and exported by its module.                               *)
(***************************************************************************)
C30_AsyncFactoryInvokedAtMostOnce ==
    \A p \in DOMAIN calls :
       (p.kind = "useFactory" /\ p.async) => calls[p] <= 1

(***************************************************************************)
(* C31: every key of the provider-token map is a module: the module an     *)
(* outside caller registered, a module that a registered module imports,   *)
(* a module class that a registered module exports, or the module class of *)
(* a dynamic spec.  A provider class that a module declares and lists in   *)
(* its exports never becomes a key of the map.                             *)
(***************************************************************************)
ExportedProviderClasses ==
    {c \in Classes : \E m \in Modules : c \in Exports(m) /\ c \in DeclaredTokens(m)}

C31_KeysAreModules ==
    \A key \in DOMAIN ModuleProviders :
       /\ key \in Modules
       /\ key \notin ExportedProviderClasses

(***************************************************************************)
(* C32: a registerDynamicModule call whose spec, given directly or through *)
(* a promise that settles to it, has no module field ends by throwing      *)
(* "Invalid dynamic module configuration", and the step in which it does   *)
(* so leaves the registry tables, the metadata and the Instance Cache as   *)
(* they were.                                                              *)
(***************************************************************************)
RegistryTables ==
    <<ModuleProviders, GlobalProviders, providerDefinitions, meta, providers>>

\* the spec an imports entry stands for
ConfigOf(entity) == IF entity.k = "promise" THEN promises[entity.name].cfg ELSE entity.cfg

\* call chain t is inside registerDynamicModule with a spec that has no module field
InMalformedDynamicCall(t) ==
    /\ tasks[t].stack # <<>>
    /\ Head(tasks[t].stack).fn = "registerDynamicModule"
    /\ ConfigOf(Head(tasks[t].stack).arg).module = ""

\* the step starts registerDynamicModule from outside on such a spec
MalformedDynamicCallMade ==
    /\ Len(tasks') = Len(tasks) + 1
    /\ tasks'[Len(tasks')].arg = "Dyn"
    /\ \E entity \in DynamicImports : ConfigOf(entity).module = ""

RejectedAsInvalid(task) ==
    task.status = "threw" /\ task.error = "Invalid dynamic module configuration"

C32_MalformedSpecThrowsAndChangesNothing ==
    [][/\ MalformedDynamicCallMade =>
             /\ tasks'[Len(tasks')].status = "awaiting" \/ RejectedAsInvalid(tasks'[Len(tasks')])
             /\ RegistryTables' = RegistryTables
       /\ \A t \in 1..Len(tasks) :
             (InMalformedDynamicCall(t) /\ tasks'[t] # tasks[t]) =>
                /\ RejectedAsInvalid(tasks'[t])
                /\ RegistryTables' = RegistryTables]_vars

(***************************************************************************)
(* C33: registerDynamicModule merges additively: in a step that changes    *)
(* the metadata, each of the imports, providers, controllers and exports   *)
(* lists of every class still holds every entry it held before, and the    *)
(* lists of the spec's module class hold every entry of the spec's lists.  *)
(***************************************************************************)
MetadataLists == {"imports", "providers", "controllers", "exports"}

Entries(list) == {list[i] : i \in 1..Len(list)}

C33_DynamicMergeIsAdditive ==
    [][meta' # meta =>
          /\ \A c \in DOMAIN meta : \A list \in MetadataLists :
                Entries(meta[c][list]) \subseteq Entries(meta'[c][list])
          /\ \E entity \in DynamicImports :
                /\ ConfigOf(entity).module # ""
                /\ meta'[ConfigOf(entity).module] # meta[ConfigOf(entity).module]
                /\ \A list \in MetadataLists :
                      Entries(ConfigOf(entity)[list])
                         \subseteq Entries(meta'[ConfigOf(entity).module][list])]_vars

C33_SpecMergedIntoStaticMetadata ==
    /\ UseValue("META", "META") \in ProviderDecls("Dyn")
    /\ UseValue("X", "1") \in ProviderDecls("Dyn")
    /\ {"X", "META"} \subseteq Exports("Dyn")

(***************************************************************************)
(* C34: when a registerModule(M) call has returned, the modules M imports  *)
(* are registered and the tokens M declares are in M's provider-token set  *)
(* with their declarations stored, also when the call was made while an    *)
(* earlier registerModule(M) call was suspended on a pending promise of a  *)
(* dynamic module spec.                                                    *)
(***************************************************************************)
RegistrationComplete(m) ==
    /\ m \in DOMAIN ModuleProviders
    /\ (Imports(m) \cap Modules) \subseteq DOMAIN ModuleProviders
    /\ DeclaredTokens(m) \subseteq ModuleProviders[m]
    /\ DeclaredTokens(m) \subseteq DOMAIN providerDefinitions

C34_ReturnsOnlyWhenRegistered ==
    \A t \in 1..Len(tasks) :
       (tasks[t].arg \in {"Root", "Leaf"} /\ tasks[t].status = "done")
          => RegistrationComplete(tasks[t].arg)

(***************************************************************************)
(* C35: when a registerModule(M) call has thrown while registering one of  *)
(* M's imports, M is still marked registered although none of its own      *)
(* providers has been registered, and every later registerModule(M) call   *)
(* has returned at once and left it so.                                    *)
(***************************************************************************)
\* call t of registerModule was rejected from inside its imports loop
ThrewInImports(t) ==
    /\ tasks[t].arg \in {"Root", "Leaf"}
    /\ tasks[t].status = "threw"
    /\ tasks[t].error # "ProviderCollector not initialized"

Unprocessed(m) ==
    /\ ModuleProviders[m] \cap DeclaredTokens(m) = {}
    /\ DeclaredTokens(m) \cap DOMAIN providerDefinitions = {}
    /\ DeclaredTokens(m) \cap DOMAIN providers = {}

C35_FailedImportLeavesModuleMarked ==
    \A t \in 1..Len(tasks) :
       ThrewInImports(t) =>
          /\ tasks[t].arg \in DOMAIN ModuleProviders
          /\ Unprocessed(tasks[t].arg)
          /\ \A u \in (t + 1)..Len(tasks) :
                tasks[u].arg = tasks[t].arg => tasks[u].status = "done"

C35_RepeatedCallAfterFailedImport ==
    \E t, u \in 1..Len(tasks) :
       /\ t < u
       /\ ThrewInImports(t)
       /\ tasks[t].arg = "Root"
       /\ tasks[u].arg = "Root"
       /\ tasks[u].status = "done"
       /\ DeclaredTokens("Root") # {}
       /\ Unprocessed("Root")

(***************************************************************************)
(* C36: handleException offers the exception to the controller- and        *)
(* method-level filters that match it, most recently registered first,     *)
(* then to the matching global filters in insertion order, and to the      *)
(* external filter only when none of them completed its catch; a filter    *)
(* whose catch throws is followed by the next one, and the filter called   *)
(* last is the only one whose catch completes.                             *)
(***************************************************************************)
\* the place of a target in the order initializeControllers registers filters in
RECURSIVE RegisteredBefore(_, _)
RegisteredBefore(k, n) ==
    IF k = 0 THEN n ELSE RegisteredBefore(k - 1, n + Len(ownPropertyNames(FilterControllers[k])))

ControllerIndex(controller) ==
    CHOOSE k \in 1..Len(FilterControllers) : FilterControllers[k] = controller

PropertyIndex(target) ==
    CHOOSE j \in 1..Len(ownPropertyNames(target.controller)) :
       Target(target.controller, ownPropertyNames(target.controller)[j]) = target

RegistrationIndex(target) ==
    RegisteredBefore(ControllerIndex(target.controller) - 1, 0) + PropertyIndex(target)

\* the filters of a list that accept the exception, in the order of the list
Matching(list, err) == SelectSeq(list, LAMBDA filter : shouldHandleException(filter, err))

\* the order in which the exception is to be offered
Offered(err) ==
    Matching(exceptionFilters, err) \o Matching(globalExceptionFilters, err) \o <<ExternalFilter>>

Completes(filter) == filter.cls \notin FaultyFilters

\* calls is a beginning of offered that stops at the first filter whose catch completes
StopsAtFirstCompleted(called, offered) ==
    /\ called # <<>>
    /\ Len(called) <= Len(offered)
    /\ called = SubSeq(offered, 1, Len(called))
    /\ Completes(called[Len(called)])
    /\ \A i \in 1..(Len(called) - 1) : ~Completes(called[i])

C36_FiltersTriedInOrder ==
    /\ \A i, j \in 1..Len(exceptionFilters) :
          i < j => RegistrationIndex(exceptionFilters[i].origin)
                      >= RegistrationIndex(exceptionFilters[j].origin)
    /\ filterPc.pc = "done" =>
          \A err \in ExceptionClasses :
             StopsAtFirstCompleted(
                handleException(exceptionFilters, globalExceptionFilters, err), Offered(err))
    /\ \A h \in Handlers, err \in ExceptionClasses :
          Cardinality({r \in handled : r.handler = h /\ r.err = err /\ Completes(r.filter)}) <= 1

\* a faulty method-level filter and a faulty global filter were passed over, and the
\* second global filter completed
C36_SecondGlobalFilterAfterTwoFaulty ==
    \E h \in Handlers :
       /\ [handler |-> h, err |-> "E1", filter |-> [cls |-> "Faulty", origin |-> h]] \in handled
       /\ [handler |-> h, err |-> "E1",
           filter |-> [cls |-> "Faulty", origin |-> Everywhere]] \in handled
       /\ [handler |-> h, err |-> "E1",
           filter |-> [cls |-> "CatchE1", origin |-> Everywhere]] \in handled

(***************************************************************************)
(* C37: a middleware passed to apply() is never executed for a request     *)
(* whose path and method match a route passed to exclude(), whether the    *)
(* middleware is a class, an instance or a plain function and whether      *)
(* exclude() is called before or after forRoutes().                        *)
(***************************************************************************)
\* what an excluded path stands for: "*" any run of characters, ":name" one segment
RECURSIVE RoutePattern(_)
RoutePattern(path) ==
    IF path = <<>> THEN <<>>
    ELSE IF Head(path) = "*" THEN <<AnyStar>> \o RoutePattern(Tail(path))
    ELSE IF Head(path) = ":" /\ Len(path) >= 2
         THEN <<NotSlashPlus>> \o RoutePattern(Tail(Tail(path)))
    ELSE <<Lit(Head(path))>> \o RoutePattern(Tail(path))

\* the path and the method of the request match the excluded route
RouteCovers(info, req) ==
    /\ info.routeMethod \in {ALL, req.method}
    /\ RegexTest(RoutePattern(info.routePath), pathname(req.url))

C37_ExcludedRouteSkipsMiddleware ==
    (/\ request # Undefined
     /\ \E key \in DOMAIN excludeMiddlewares : RouteCovers(excludeMiddlewares[key], request))
    => executed = <<>>

====
